---- MODULE Spec2Model ----
(***************************************************************************)
(* The Tower: entity physics, control, enemy patrol and block behaviour.   *)
(* Positions are integer pixels (pygame Rect), velocities integer px/s.    *)
(* Elapsed times are floats in the source; the model keeps the exact       *)
(* rational decomposition and the places where IEEE double arithmetic      *)
(* departs from it (FloatWrapSteps, FloatWrapMs).                          *)
(***************************************************************************)
EXTENDS Integers, Sequences, FiniteSets, TLC

VARIABLES terrain, block, player, enemy, coins, keys, tick, last, pc

vars == <<terrain, block, player, enemy, coins, keys, tick, last, pc>>

----------------------------------------------------------------------------
(* Bounds of the model *)

\* dt = k * (1/60) is drawn for k in 1..MaxSteps
MaxSteps == 5
\* start heights: the entity's bottom is 0..MaxGap pixels above a floor top
MaxGap == 2
\* enemy positions and patrol bounds are drawn from BLOCK_SIZE * (0..MaxPatrol)
MaxPatrol == 4
\* frames of the game loop that are run
MaxTicks == 3
\* updates of a falling block that are run
MaxFalls == 4

----------------------------------------------------------------------------
(* Program constants *)

BLOCK_SIZE == 25
GRAVITY == 60
StepsPerSecond == 60
WALK_LEFT_VELOCITY == -180
WALK_RIGHT_VELOCITY == 180
JUMP_VELOCITY == -750
CLIMB_UP_VELOCITY == -120
CLIMB_DOWN_VELOCITY == 180
ZERO_VELOCITY == 0
DefaultWalkingSpeed == 90
PlayerWidth == 20
PlayerHeight == 30

EntityStates == {"IDLE", "WALKING", "JUMPING", "HANGING", "CLIMBING"}
Directions == {"LEFT", "RIGHT"}

----------------------------------------------------------------------------
(* Integer conversion and rectangles *)

\* Python int(): truncation toward zero of n / d, d > 0
Trunc(n, d) == IF n >= 0 THEN n \div d ELSE -((-n) \div d)

Sgn(n) == IF n > 0 THEN 1 ELSE IF n < 0 THEN -1 ELSE 0

Right(r) == r.x + r.w
Bottom(r) == r.y + r.h

\* pygame Rect.colliderect: overlap of positive area, touching edges do not collide
CollideRect(a, b) ==
    /\ a.x < Right(b)
    /\ b.x < Right(a)
    /\ a.y < Bottom(b)
    /\ b.y < Bottom(a)

\* a terrain type's hitbox, in hundredths of a block
FLOOR == [pos_x |-> 0, pos_y |-> 0, width |-> 100, height |-> 100, is_spike |-> FALSE]
FLOOR_TOP_HALF == [pos_x |-> 0, pos_y |-> 48, width |-> 100, height |-> 52, is_spike |-> FALSE]
CEILING == [pos_x |-> 0, pos_y |-> 0, width |-> 100, height |-> 100, is_spike |-> FALSE]
SPIKES_UPRIGHT == [pos_x |-> 0, pos_y |-> 70, width |-> 100, height |-> 30, is_spike |-> TRUE]
COIN == [pos_x |-> 20, pos_y |-> 20, width |-> 60, height |-> 60, is_spike |-> FALSE]
LADDER == [pos_x |-> 0, pos_y |-> 0, width |-> 100, height |-> 100, is_spike |-> FALSE]
WALL_LEFT == [pos_x |-> 0, pos_y |-> 0, width |-> 100, height |-> 100, is_spike |-> FALSE]
WALL_RIGHT == [pos_x |-> 0, pos_y |-> 0, width |-> 100, height |-> 100, is_spike |-> FALSE]

\* Block.__init__: the rect of a block of terrain type t placed at pixel (x, y)
Block(t, x, y) ==
    [x |-> x + Trunc(t.pos_x * BLOCK_SIZE, 100),
     y |-> y + Trunc(t.pos_y * BLOCK_SIZE, 100),
     w |-> Trunc(t.width * BLOCK_SIZE, 100),
     h |-> Trunc(t.height * BLOCK_SIZE, 100),
     is_spike |-> t.is_spike]

\* a block on the tile grid
Tile(t, col, row) == Block(t, col * BLOCK_SIZE, row * BLOCK_SIZE)

----------------------------------------------------------------------------
(* Collision side tests *)

is_colliding_from_below(entity, sprite) ==
    sprite.y < entity.y /\ entity.y < Bottom(sprite)

is_colliding_from_above(entity, sprite) ==
    sprite.y < Bottom(entity) /\ Bottom(entity) < Bottom(sprite)

is_colliding_from_right(entity, sprite) ==
    sprite.x < entity.x /\ entity.x < Right(sprite)

is_colliding_from_left(entity, sprite) ==
    sprite.x < Right(entity) /\ Right(entity) < Right(sprite)

\* pygame.sprite.spritecollide: the indices of the group's sprites that
\* overlap the entity, taken before any of them is handled; the loops below
\* visit them in group order
spritecollide(entity, group) ==
    {i \in 1..Len(group) : CollideRect(entity, group[i])}

----------------------------------------------------------------------------
(* PhysicsComponent: vertical and horizontal collision handling *)

\* Op(v) with v evaluated once (TLC re-evaluates an operator's argument at
\* every use; a bound variable holds a value)
Bind(v, Op(_)) == CHOOSE r \in {Op(x) : x \in {v}} : TRUE

\* a faulty variant of handle_y_block: a hit from below snaps the entity but
\* leaves its y velocity
handle_y_block_keeps_velocity(s, group, i) ==
    LET b == group[i]
        hitB == is_colliding_from_below(s.e, b)
        e1 == IF hitB THEN [s.e EXCEPT !.y = Bottom(b)] ELSE s.e
        under == IF hitB THEN s.under \cup {i} ELSE s.under
    IN IF is_colliding_from_above(e1, b)
       THEN [e |-> [e1 EXCEPT !.state = IF @ = "JUMPING" THEN "IDLE" ELSE @,
                              !.y = b.y - e1.h,
                              !.yv = 0],
             landed |-> TRUE,
             on |-> s.on \cup {i},
             under |-> under]
       ELSE [s EXCEPT !.e = e1, !.under = under]

\* one iteration of the loop of handle_y_collisions, on block i of the group;
\* s = [e: entity, landed: a landing contact happened, on: blocks landed on,
\*      under: blocks hit from below]
handle_y_block(s, group, i) ==
    LET b == group[i]
        hitB == is_colliding_from_below(s.e, b)
        e1 == IF hitB
              THEN [s.e EXCEPT !.y = Bottom(b), !.yv = 0]
              ELSE s.e
        under == IF hitB THEN s.under \cup {i} ELSE s.under
    IN IF is_colliding_from_above(e1, b)
       THEN [e |-> [e1 EXCEPT !.state = IF @ = "JUMPING" THEN "IDLE" ELSE @,
                              !.y = b.y - e1.h,
                              !.yv = 0],
             landed |-> TRUE,
             on |-> s.on \cup {i},
             under |-> under]
       ELSE [s EXCEPT !.e = e1, !.under = under]

\* for colliding_sprite in colliding_sprites, from index i on
RECURSIVE YLoop(_, _, _, _)
YLoop(s, group, hits, i) ==
    IF i > Len(group) THEN s
    ELSE IF i \in hits
         THEN Bind(handle_y_block(s, group, i),
                   LAMBDA t : YLoop(t, group, hits, i + 1))
         ELSE YLoop(s, group, hits, i + 1)

\* a faulty variant of ForceJumping: the test of CLIMBING and HANGING is
\* left out
ForceJumping_on_ladders(s) ==
    IF ~s.landed THEN [s EXCEPT !.e.state = "JUMPING"] ELSE s

\* the test after the loop: no landing contact forces JUMPING
ForceJumping(s) ==
    IF s.e.state \notin {"CLIMBING", "HANGING"} /\ ~s.landed
    THEN [s EXCEPT !.e.state = "JUMPING"]
    ELSE s

\* handle_y_collisions; landed is the negation of the code's isJumping
handle_y_collisions(entity, group) ==
    Bind([e |-> entity, landed |-> FALSE, on |-> {}, under |-> {}], LAMBDA s0 :
        Bind(spritecollide(s0.e, group), LAMBDA hits :
            Bind(YLoop(s0, group, hits, 1), ForceJumping)))

\* a faulty variant of handle_x_block: the is_spike test is left out
handle_x_block_without_spike_test(s, group, i) ==
    LET b == group[i]
        hitR == is_colliding_from_right(s.e, b)
        e1 == IF hitR THEN [s.e EXCEPT !.x = Right(b)] ELSE s.e
        hitL == is_colliding_from_left(e1, b)
        e2 == IF hitL THEN [e1 EXCEPT !.x = b.x - e1.w] ELSE e1
    IN [e |-> e2, by |-> IF hitR \/ hitL THEN s.by \cup {i} ELSE s.by,
        visits |-> Append(s.visits, [block |-> i, at |-> s.e, to |-> e2])]

\* a faulty variant of handle_x_block: the tests ask whether an edge of the
\* block lies within the entity's extent, not an edge of the entity within
\* the block's
handle_x_block_with_block_edge_tests(s, group, i) ==
    LET b == group[i]
    IN IF ~b.is_spike
       THEN LET hitR == s.e.x < b.x /\ b.x < Right(s.e)
                e1 == IF hitR THEN [s.e EXCEPT !.x = Right(b)] ELSE s.e
                hitL == e1.x < Right(b) /\ Right(b) < Right(e1)
                e2 == IF hitL THEN [e1 EXCEPT !.x = b.x - e1.w] ELSE e1
            IN [e |-> e2, by |-> IF hitR \/ hitL THEN s.by \cup {i} ELSE s.by,
                visits |-> Append(s.visits, [block |-> i, at |-> s.e, to |-> e2])]
       ELSE [s EXCEPT !.visits = Append(@, [block |-> i, at |-> s.e, to |-> s.e])]

\* one iteration of the loop of handle_x_collisions;
\* s = [e: entity, by: blocks that snapped the entity, visits: for every
\*      block the loop visited, the entity before and after its iteration]
handle_x_block(s, group, i) ==
    LET b == group[i]
    IN IF ~b.is_spike
       THEN LET hitR == is_colliding_from_right(s.e, b)
                e1 == IF hitR THEN [s.e EXCEPT !.x = Right(b)] ELSE s.e
                hitL == is_colliding_from_left(e1, b)
                e2 == IF hitL THEN [e1 EXCEPT !.x = b.x - e1.w] ELSE e1
            IN [e |-> e2, by |-> IF hitR \/ hitL THEN s.by \cup {i} ELSE s.by,
                visits |-> Append(s.visits, [block |-> i, at |-> s.e, to |-> e2])]
       ELSE [s EXCEPT !.visits = Append(@, [block |-> i, at |-> s.e, to |-> s.e])]

RECURSIVE XLoop(_, _, _, _)
XLoop(s, group, hits, i) ==
    IF i > Len(group) THEN s
    ELSE IF i \in hits
         THEN Bind(handle_x_block(s, group, i),
                   LAMBDA t : XLoop(t, group, hits, i + 1))
         ELSE XLoop(s, group, hits, i + 1)

handle_x_collisions(entity, group) ==
    Bind([e |-> entity, by |-> {}, visits |-> <<>>], LAMBDA s0 :
        Bind(spritecollide(s0.e, group), LAMBDA hits :
            XLoop(s0, group, hits, 1)))

----------------------------------------------------------------------------
(* EnemyPhysicsComponent: horizontal collision handling *)

\* Entity.reverse_x_velocity
reverse_x_velocity(entity) == [entity EXCEPT !.xv = -@]

\* one iteration of the loop of EnemyPhysicsComponent.handle_x_collisions:
\* no is_spike test, and the velocity is reversed for every sprite of the
\* list
enemy_handle_x_block(s, group, i) ==
    LET b == group[i]
        hitR == is_colliding_from_right(s.e, b)
        e1 == IF hitR THEN [s.e EXCEPT !.x = Right(b), !.direction = "RIGHT"]
              ELSE s.e
        hitL == is_colliding_from_left(e1, b)
        e2 == IF hitL THEN [e1 EXCEPT !.x = b.x - e1.w, !.direction = "LEFT"]
              ELSE e1
        e3 == reverse_x_velocity(e2)
    IN [e |-> e3, by |-> IF hitR \/ hitL THEN s.by \cup {i} ELSE s.by,
        visits |-> Append(s.visits, [block |-> i, at |-> s.e, to |-> e3])]

RECURSIVE EnemyXLoop(_, _, _, _)
EnemyXLoop(s, group, hits, i) ==
    IF i > Len(group) THEN s
    ELSE IF i \in hits
         THEN Bind(enemy_handle_x_block(s, group, i),
                   LAMBDA t : EnemyXLoop(t, group, hits, i + 1))
         ELSE EnemyXLoop(s, group, hits, i + 1)

\* EnemyPhysicsComponent.handle_x_collisions
enemy_handle_x_collisions(entity, group) ==
    Bind([e |-> entity, by |-> {}, visits |-> <<>>], LAMBDA s0 :
        Bind(spritecollide(s0.e, group), LAMBDA hits :
            EnemyXLoop(s0, group, hits, 1)))

\* self.handle_x_collisions: the method of the component's class
SelfHandleX(self, entity, group) ==
    IF self = "EnemyPhysicsComponent"
    THEN enemy_handle_x_collisions(entity, group)
    ELSE handle_x_collisions(entity, group)

----------------------------------------------------------------------------
(* PhysicsComponent: the map boundary *)

\* a faulty variant of handle_map_boundary_collisions: the three tests form
\* one if / elif chain, so a box past the top is not clamped sideways
handle_map_boundary_collisions_one_chain(entity, map_width) ==
    IF entity.y < 0 THEN [entity EXCEPT !.y = 0]
    ELSE IF entity.x < 0 THEN [entity EXCEPT !.x = 0]
    ELSE IF Right(entity) > map_width THEN [entity EXCEPT !.x = map_width - entity.w]
    ELSE entity

\* handle_map_boundary_collisions
handle_map_boundary_collisions(entity, map_width) ==
    LET e1 == IF entity.y < 0 THEN [entity EXCEPT !.y = 0] ELSE entity
    IN IF e1.x < 0 THEN [e1 EXCEPT !.x = 0]
       ELSE IF Right(e1) > map_width THEN [e1 EXCEPT !.x = map_width - e1.w]
       ELSE e1

----------------------------------------------------------------------------
(* PhysicsComponent.update: decomposition of the elapsed time *)

\* An elapsed time is [unit |-> "ms", a |-> n]: n / 1000 seconds, as main.py
\* passes it, or [unit |-> "step", a |-> k]: the double k * (1/60).

\* the multiples k of the step for which the double k*(1/60) % (1/60) is not
\* 0 but one unit in the last place under 1/60 (k up to 24)
FloatWrapSteps == {5, 9, 10, 11, 17, 18, 19, 20, 21, 22, 23}

\* the same for the millisecond values that are whole numbers of steps (up to 400)
FloatWrapMs == {150, 300, 350}

RemainderWraps(dt) ==
    \/ dt.unit = "step" /\ dt.a \in FloatWrapSteps
    \/ dt.unit = "ms" /\ dt.a \in FloatWrapMs

\* num_full_steps = int(delta_time / DISCRETE_TIMESTEP)
NumFullSteps(dt) ==
    IF dt.unit = "ms" THEN (dt.a * StepsPerSecond) \div 1000 ELSE dt.a

\* remainder_time = delta_time % DISCRETE_TIMESTEP, in 1/3000 s
RemainderTime(dt) ==
    IF RemainderWraps(dt) THEN 3000 \div StepsPerSecond
    ELSE IF dt.unit = "ms" THEN (3 * dt.a) % (3000 \div StepsPerSecond)
    ELSE 0

\* int(GRAVITY * remainder_time * 60)
RemainderGravity(dt) ==
    IF RemainderWraps(dt) THEN GRAVITY - 1
    ELSE Trunc(GRAVITY * RemainderTime(dt) * 60, 3000)

\* int(velocity * remainder_time)
RemainderMove(v, dt) ==
    IF RemainderWraps(dt) /\ v # 0 /\ v % StepsPerSecond = 0
    THEN Trunc(v, StepsPerSecond) - Sgn(v)
    ELSE Trunc(v * RemainderTime(dt), 3000)

\* a faulty variant of FullStepGravity: the factor 60 is left out
FullStepGravity_unscaled == Trunc(GRAVITY, StepsPerSecond)

\* int(GRAVITY * DISCRETE_TIMESTEP * 60)
FullStepGravity == Trunc(GRAVITY * 60, StepsPerSecond)

\* int(velocity * DISCRETE_TIMESTEP)
FullStepMove(v) == Trunc(v, StepsPerSecond)

\* a faulty variant of HasGravity: only CLIMBING suppresses gravity
HasGravity_hanging_falls(entity) == entity.state # "CLIMBING"

\* the test before each gravity line: the entity is neither CLIMBING nor
\* HANGING
HasGravity(entity) == entity.state \notin {"CLIMBING", "HANGING"}

\* The running record of one update:
\*   self    the class of the component that runs the update
\*   e       the entity
\*   landed  a landing contact happened in some sub-step
\*   on      the blocks landed on in the last vertical pass that ran
\*   by      the blocks that snapped the entity horizontally
\*   steps   the entity at the end of each sub-step
\*   log     for each sub-step: the entity at its start, the gravity added
\*           (pull), whether the vertical pass ran, the entity handed to it
\*           (moved) and left by it (rested), the blocks hit from below
\*           (under), whether it had a landing contact, the entity handed
\*           to the horizontal pass (pushed) and the visits of that pass
NewRun(self, entity) ==
    [self |-> self, e |-> entity, landed |-> FALSE, on |-> {}, by |-> {},
     steps |-> <<>>, log |-> <<>>]

\* gravity on an entity that is neither CLIMBING nor HANGING
Gravitate(entity, g) ==
    IF HasGravity(entity) THEN [entity EXCEPT !.yv = @ + g] ELSE entity

\* the horizontal half of a sub-step, after the vertical pass gave ry on
\* the entity moved (ran tells whether the pass ran)
MoveX(s, moved, ran, ry, dx, group) ==
    Bind(SelfHandleX(s.self, [ry.e EXCEPT !.x = @ + dx], group), LAMBDA rx :
        [self |-> s.self,
         e |-> rx.e,
         landed |-> s.landed \/ ry.landed,
         on |-> ry.on,
         by |-> s.by \cup rx.by,
         steps |-> Append(s.steps, rx.e),
         log |-> Append(s.log,
                        [start |-> s.e, pull |-> moved.yv - s.e.yv, ran |-> ran,
                         moved |-> moved, rested |-> ry.e, under |-> ry.under,
                         landed |-> ry.landed,
                         pushed |-> [ry.e EXCEPT !.x = @ + dx],
                         visits |-> rx.visits])])

\* the body of the loop over the full steps
FullStep(s, group) ==
    Bind(Gravitate(s.e, FullStepGravity), LAMBDA e0 :
        Bind([e0 EXCEPT !.y = @ + FullStepMove(e0.yv)], LAMBDA moved :
            Bind(handle_y_collisions(moved, group), LAMBDA ry :
                MoveX(s, moved, TRUE, ry, FullStepMove(ry.e.xv), group))))

\* for i in range(0, num_full_steps); Len(s.steps) is the loop index
RECURSIVE FullSteps(_, _, _)
FullSteps(s, group, n) ==
    IF Len(s.steps) >= n THEN s
    ELSE Bind(FullStep(s, group), LAMBDA t : FullSteps(t, group, n))

\* the remainder sub-step: the vertical pass runs only when the entity moved
RemainderStep(s, group, dt) ==
    Bind(Gravitate(s.e, RemainderGravity(dt)), LAMBDA e0 :
        Bind([e0 EXCEPT !.y = @ + RemainderMove(e0.yv, dt)], LAMBDA moved :
            Bind(IF RemainderMove(e0.yv, dt) # 0
                 THEN handle_y_collisions(moved, group)
                 ELSE [e |-> e0, landed |-> FALSE, on |-> s.on, under |-> {}],
                 LAMBDA ry : MoveX(s, moved, RemainderMove(e0.yv, dt) # 0, ry,
                                   RemainderMove(ry.e.xv, dt), group))))

\* the update of a component of class self; the result adds preClamp, the
\* entity before handle_map_boundary_collisions
ComponentUpdate(self, entity, dt, group, map_width) ==
    Bind(FullSteps(NewRun(self, entity), group, NumFullSteps(dt)), LAMBDA f :
        Bind(RemainderStep(f, group, dt), LAMBDA s :
            [e |-> handle_map_boundary_collisions(s.e, map_width),
             landed |-> s.landed,
             on |-> s.on,
             by |-> s.by,
             steps |-> s.steps,
             log |-> s.log,
             preClamp |-> s.e]))

\* PhysicsComponent().update(delta_time, entity, game_map)
PhysicsUpdate(entity, dt, group, map_width) ==
    ComponentUpdate("PhysicsComponent", entity, dt, group, map_width)

\* EnemyPhysicsComponent().update(delta_time, enemy, game_map): the update
\* it inherits, with its own handle_x_collisions
EnemyPhysicsUpdate(entity, dt, group, map_width) ==
    ComponentUpdate("EnemyPhysicsComponent", entity, dt, group, map_width)

----------------------------------------------------------------------------
(* The level of the physics checks *)

MapColumns == 4

MapWidth == MapColumns * BLOCK_SIZE

\* the collideable terrain group, in the order of the tile grid
Level ==
    << Tile(CEILING, 1, 2),
       Tile(SPIKES_UPRIGHT, 2, 4),
       Tile(FLOOR, 3, 4),
       Tile(FLOOR_TOP_HALF, 0, 5),
       Tile(FLOOR, 1, 5),
       Tile(FLOOR, 2, 5) >>

\* the elapsed times drawn: the frames of a 60 Hz clock (16, 17 ms), a slow
\* frame, a lag spike, and whole multiples of the step
MsValues == {16, 17, 33, 100}

DeltaTimes ==
    {[unit |-> "ms", a |-> m] : m \in MsValues}
        \cup {[unit |-> "step", a |-> k] : k \in 1..MaxSteps}

Entity(x, y, w, h, xv, yv, state, dir) ==
    [x |-> x, y |-> y, w |-> w, h |-> h, xv |-> xv, yv |-> yv,
     state |-> state, direction |-> dir]

\* Entity.__init__ and Player.__init__
NewPlayer(x, y) ==
    Entity(x, y, PlayerWidth, PlayerHeight, 0, 0, "IDLE", "RIGHT")

InSolid(entity, group) ==
    \E i \in 1..Len(group) : ~group[i].is_spike /\ CollideRect(entity, group[i])

NoEnemy == [x |-> 0]
\* no block under update
NoBlock == [kind |-> "none"]
NoLast == [op |-> "none"]

\* no key held
NoKeys == [left |-> FALSE, right |-> FALSE, up |-> FALSE, down |-> FALSE,
           space |-> FALSE]

StartXs == {0, 2, 10, 28, 40, 54, MapWidth - PlayerWidth}

StartYs ==
    {0, 1, 76}
        \cup {t - PlayerHeight - g :
                t \in {Level[i].y : i \in {3, 4, 5}}, g \in 0..MaxGap}
        \cup {Level[4].y - PlayerHeight - 78}

StartYVelocities == {JUMP_VELOCITY, -150, 0, 60, 720}

StartXVelocities == {WALK_LEFT_VELOCITY, ZERO_VELOCITY, WALK_RIGHT_VELOCITY}

\* the y velocities of an entity that is HANGING or CLIMBING when physics
\* runs: those the climbing handler sets, or 0
ClimbVelocities == {CLIMB_UP_VELOCITY, ZERO_VELOCITY, CLIMB_DOWN_VELOCITY}

\* the entities handed to the update: under gravity with any of the drawn
\* velocities; HANGING or CLIMBING with x velocity 0 (the hanging handler
\* zeroes it and the climbing handler leaves it) and a climbing y velocity
PhysStarts ==
    {Entity(x, y, PlayerWidth, PlayerHeight, xv, yv, st, "RIGHT") :
        x \in StartXs, y \in StartYs,
        xv \in StartXVelocities, yv \in StartYVelocities,
        st \in {"IDLE", "WALKING", "JUMPING"}}
    \cup
    {Entity(x, y, PlayerWidth, PlayerHeight, ZERO_VELOCITY, yv, st, "RIGHT") :
        x \in StartXs, y \in StartYs, yv \in ClimbVelocities,
        st \in {"HANGING", "CLIMBING"}}

PhysInit ==
    /\ terrain = Level
    /\ block = NoBlock
    /\ player \in {e \in PhysStarts : ~InSolid(e, Level)}
    /\ enemy = NoEnemy
    /\ coins = <<>>
    /\ keys = NoKeys
    /\ tick = 0
    /\ last = NoLast
    /\ pc = "input"

\* one call of PhysicsComponent.update(delta_time, player, map)
PhysicsStep(dt) ==
    /\ pc = "input"
    /\ \E r \in {PhysicsUpdate(player, dt, terrain, MapWidth)} :
          /\ player' = r.e
          /\ last' = [op |-> "physics", pre |-> player, dt |-> dt,
                      landed |-> r.landed, on |-> r.on, by |-> r.by,
                      steps |-> r.steps, log |-> r.log,
                      preClamp |-> r.preClamp]
    /\ pc' = "done"
    /\ UNCHANGED <<terrain, block, enemy, coins, keys, tick>>

PhysNext == \E dt \in DeltaTimes : PhysicsStep(dt)

PhysSpec == PhysInit /\ [][PhysNext]_vars

----------------------------------------------------------------------------
(* Properties of PhysicsComponent.update, checked under PhysSpec *)

PhysicsDone == pc = "done" /\ last.op = "physics"

SameColumn(a, b) == a.x < Right(b) /\ b.x < Right(a)

Solid == {i \in 1..Len(terrain) : ~terrain[i].is_spike}

OneStep == [unit |-> "step", a |-> 1]

\* C1 (as claimed): an update with a landing contact ends with y velocity 0
\* and the entity's bottom on the top of a block of its column, and an entity
\* that was JUMPING is IDLE.
C1_LandingEndsAtRest ==
    (PhysicsDone /\ last.landed) =>
        /\ player.yv = 0
        /\ \E i \in 1..Len(terrain) :
              SameColumn(player, terrain[i]) /\ Bottom(player) = terrain[i].y
        /\ (last.pre.state = "JUMPING" => player.state = "IDLE")

\* C2 (as claimed): an entity that is neither HANGING nor CLIMBING and had no
\* landing contact in the update is JUMPING when the update returns.
C2_NoGroundMeansJumping ==
    (PhysicsDone /\ ~last.landed /\ HasGravity(last.pre)) =>
        player.state = "JUMPING"

\* C3 (as claimed): an entity falling straight down from above a solid block
\* of its column never ends a sub-step with its bottom past that block's top.
C3_NoTunneling ==
    (PhysicsDone /\ HasGravity(last.pre) /\ last.pre.xv = 0 /\ last.pre.yv >= 0) =>
        \A i \in Solid :
            (SameColumn(last.pre, terrain[i]) /\ Bottom(last.pre) <= terrain[i].y) =>
                \A k \in 1..Len(last.steps) : Bottom(last.steps[k]) <= terrain[i].y

\* k consecutive updates of one step each
RECURSIVE SingleStepUpdates(_, _)
SingleStepUpdates(entity, k) ==
    IF k = 0 THEN entity
    ELSE Bind(PhysicsUpdate(entity, OneStep, terrain, MapWidth).e,
              LAMBDA e : SingleStepUpdates(e, k - 1))

\* C4 (as claimed): one update with dt = k * (1/60) leaves the entity as k
\* updates with dt = 1/60 do.
C4_FrameTimeIndependent ==
    (PhysicsDone /\ last.dt.unit = "step") =>
        player = SingleStepUpdates(last.pre, last.dt.a)

\* C5: no block flagged is_spike snaps the entity horizontally.
C5_HazardPassthrough ==
    PhysicsDone => \A i \in last.by : ~terrain[i].is_spike

\* C5 witness: the entity moved sideways into a spike and the update left it
\* with an edge inside the spike.
C5_Witness ==
    /\ PhysicsDone
    /\ player.x # last.pre.x
    /\ \E i \in 1..Len(terrain) :
          /\ terrain[i].is_spike
          /\ CollideRect(player, terrain[i])
          /\ ~CollideRect(last.pre, terrain[i])
          /\ \/ is_colliding_from_left(player, terrain[i])
             \/ is_colliding_from_right(player, terrain[i])

\* C6: after handle_map_boundary_collisions a box that had left < 0 has
\* left = 0, one that had right > map_width has right = map_width, and one
\* that had top < 0 has top = 0.
C6_BoundaryClamp ==
    PhysicsDone =>
        /\ (last.preClamp.x < 0 => player.x = 0)
        /\ (Right(last.preClamp) > MapWidth => Right(player) = MapWidth)
        /\ (last.preClamp.y < 0 => player.y = 0)

\* C6 witness: the box had crossed the right edge of the map.
C6_Witness == PhysicsDone /\ Right(last.preClamp) > MapWidth

\* further cases of C6 that are reached: left edge, top edge
C6_ReachedLeft == PhysicsDone /\ last.preClamp.x < 0
C6_ReachedTop == PhysicsDone /\ last.preClamp.y < 0

\* the case of C8: dt exactly one step, y velocity +60, IDLE or JUMPING, the
\* bottom one pixel above the top of block i of the entity's column
C8_Case(i) ==
    /\ PhysicsDone
    /\ last.dt = OneStep
    /\ last.pre.yv = 60
    /\ last.pre.state \in {"IDLE", "JUMPING"}
    /\ SameColumn(last.pre, terrain[i])
    /\ Bottom(last.pre) = terrain[i].y - 1

\* C8: in that case the update ends with bottom = floor.top, y velocity 0 and
\* state IDLE.
C8_SingleStepLanding ==
    \A i \in 1..Len(terrain) :
        C8_Case(i) =>
            /\ Bottom(player) = terrain[i].y
            /\ player.yv = 0
            /\ player.state = "IDLE"

\* C8 witness: the case happened on a solid floor block, for a JUMPING entity.
C8_Witness ==
    \E i \in Solid : C8_Case(i) /\ last.pre.state = "JUMPING"

C8_ReachedIdle ==
    \E i \in Solid : C8_Case(i) /\ last.pre.state = "IDLE"

Abs(n) == IF n < 0 THEN -n ELSE n

\* trunc(v * dt), the displacement of one step of length dt
SingleStepMove(v, dt) ==
    IF dt.unit = "ms" THEN Trunc(v * dt.a, 1000) ELSE Trunc(v * dt.a, StepsPerSecond)

\* the free displacement of velocity v after k sub-steps of an update by dt
\* (the last of the NumFullSteps(dt) + 1 sub-steps is the remainder)
FreeMove(v, dt, k) ==
    IF k <= NumFullSteps(dt) THEN k * FullStepMove(v)
    ELSE NumFullSteps(dt) * FullStepMove(v) + RemainderMove(v, dt)

\* entity e, moving freely at its velocity through an update by dt, overlaps
\* no block after the vertical or the horizontal move of any sub-step and
\* stays inside the map
FreeMotion(e, dt) ==
    \A k \in 1..(NumFullSteps(dt) + 1) :
        LET y == e.y + FreeMove(e.yv, dt, k)
            x0 == e.x + FreeMove(e.xv, dt, k - 1)
            x1 == e.x + FreeMove(e.xv, dt, k)
        IN /\ spritecollide([e EXCEPT !.x = x0, !.y = y], terrain) = {}
           /\ spritecollide([e EXCEPT !.x = x1, !.y = y], terrain) = {}
           /\ y >= 0 /\ x1 >= 0 /\ x1 + e.w <= MapWidth

\* C12 (as claimed): with gravity suppressed and no contact, the displacement
\* of an update on each axis is at most trunc(v * dt) in magnitude and differs
\* from it by less than the number of sub-steps performed.
C12_SubSteppingRefines ==
    (PhysicsDone /\ ~HasGravity(last.pre) /\ FreeMotion(last.pre, last.dt)) =>
        LET n == Len(last.steps)
            dx == player.x - last.pre.x
            dy == player.y - last.pre.y
            sx == SingleStepMove(last.pre.xv, last.dt)
            sy == SingleStepMove(last.pre.yv, last.dt)
        IN /\ Abs(dx) <= Abs(sx) /\ Abs(sx - dx) < n
           /\ Abs(dy) <= Abs(sy) /\ Abs(sy - dy) < n

\* the same for the elapsed times whose remainder is the exact one
C12_HoldsWithoutFloatWrap ==
    PhysicsDone => (RemainderWraps(last.dt) \/ C12_SubSteppingRefines)

\* the iterations of the loops of handle_x_collisions in the update, over
\* blocks that are not spikes and that the entity overlaps when its
\* iteration begins
SolidVisits ==
    {v \in UNION {{last.log[i].visits[j] : j \in 1..Len(last.log[i].visits)} :
                    i \in 1..Len(last.log)} :
        ~terrain[v.block].is_spike /\ CollideRect(v.at, terrain[v.block])}

\* C18 (as claimed): a block whose left edge lies within the entity's
\* horizontal extent leaves the entity's left on the block's right, and a
\* block whose right edge lies within the entity's extent leaves the
\* entity's right on the block's left.
C18_BlockEdgeInEntity ==
    PhysicsDone =>
        \A v \in SolidVisits :
            LET b == terrain[v.block]
            IN /\ (v.at.x < b.x /\ b.x < Right(v.at)) => v.to.x = Right(b)
               /\ (v.at.x < Right(b) /\ Right(b) < Right(v.at)) => Right(v.to) = b.x

\* C18 (amended): an entity whose left edge lies strictly within the block's
\* horizontal extent is left with its left on the block's right; otherwise
\* an entity whose right edge lies strictly within the block's extent is
\* left with its right on the block's left; otherwise it is not moved.
C18_EntityEdgeInBlock ==
    PhysicsDone =>
        \A v \in SolidVisits :
            LET b == terrain[v.block]
                leftIn == b.x < v.at.x /\ v.at.x < Right(b)
                rightIn == b.x < Right(v.at) /\ Right(v.at) < Right(b)
            IN /\ leftIn => v.to = [v.at EXCEPT !.x = Right(b)]
               /\ (~leftIn /\ rightIn) => v.to = [v.at EXCEPT !.x = b.x - v.at.w]
               /\ (~leftIn /\ ~rightIn) => v.to = v.at

\* C18 happens: an entity moving right entered a block by its left side (the
\* block's left edge is within the entity's extent) and is put back with its
\* right on the block's left
C18_Witness ==
    /\ PhysicsDone
    /\ \E v \in SolidVisits :
          LET b == terrain[v.block]
          IN /\ v.at.xv > 0
             /\ v.at.x < b.x /\ b.x < Right(v.at)
             /\ Right(v.to) = b.x

\* an entity moving left entered a block by its right side and is put back
\* with its left on the block's right
C18_ReachedFromRight ==
    /\ PhysicsDone
    /\ \E v \in SolidVisits :
          LET b == terrain[v.block]
          IN /\ v.at.xv < 0
             /\ v.at.x < Right(b) /\ Right(b) < Right(v.at)
             /\ v.to.x = Right(b)

\* no vertical pass of the update had a contact, from below or from above
NoVerticalContact ==
    \A i \in 1..Len(last.log) : last.log[i].under = {} /\ ~last.log[i].landed

\* C17: in every sub-step (full and remainder) that the entity starts HANGING
\* or CLIMBING gravity adds nothing to its y velocity, and without a vertical
\* contact its y velocity after the update is the one before, for every
\* elapsed time; in every other state each full sub-step adds exactly 60.
C17_GravitySuppression ==
    PhysicsDone =>
        /\ \A i \in 1..Len(last.log) :
              /\ last.log[i].start.state \in {"HANGING", "CLIMBING"} =>
                    last.log[i].pull = 0
              /\ (last.log[i].start.state \notin {"HANGING", "CLIMBING"}
                    /\ i <= NumFullSteps(last.dt)) =>
                    last.log[i].pull = 60
        /\ (last.pre.state \in {"HANGING", "CLIMBING"} /\ NoVerticalContact) =>
              player.yv = last.pre.yv

\* C17 happens: a CLIMBING entity climbing down went through several full
\* sub-steps and a remainder sub-step that moved it, touched nothing and
\* kept its y velocity
C17_Witness ==
    /\ PhysicsDone
    /\ last.pre.state = "CLIMBING"
    /\ last.pre.yv = CLIMB_DOWN_VELOCITY
    /\ NumFullSteps(last.dt) >= 2
    /\ Len(last.log) = NumFullSteps(last.dt) + 1
    /\ last.log[Len(last.log)].ran
    /\ NoVerticalContact
    /\ player.y > last.pre.y
    /\ player.yv = CLIMB_DOWN_VELOCITY

\* a HANGING entity with y velocity -120 (reverted from CLIMBING in the
\* control update before) is moved, without gravity
C17_ReachedHanging ==
    /\ PhysicsDone
    /\ last.pre.state = "HANGING"
    /\ last.pre.yv = CLIMB_UP_VELOCITY
    /\ NoVerticalContact
    /\ player.y < last.pre.y
    /\ player.yv = CLIMB_UP_VELOCITY

\* a JUMPING entity got 60 in each of several full sub-steps
C17_ReachedFalling ==
    /\ PhysicsDone
    /\ last.pre.state = "JUMPING"
    /\ NumFullSteps(last.dt) >= 3
    /\ \A i \in 1..3 : last.log[i].start.state = "JUMPING" /\ last.log[i].pull = 60

\* a CLIMBING entity climbing down reached a floor: the contact zeroed its
\* y velocity (the case C17 excludes)
C17_ReachedContact ==
    /\ PhysicsDone
    /\ last.pre.state = "CLIMBING"
    /\ last.pre.yv = CLIMB_DOWN_VELOCITY
    /\ ~NoVerticalContact
    /\ player.yv = 0

\* the case of C19: in sub-step i the entity, whose top was at or below the
\* bottom of block j, moved up and overlaps the block when the vertical pass
\* begins
C19_Case(i, j) ==
    /\ PhysicsDone
    /\ i \in 1..Len(last.log)
    /\ last.log[i].ran
    /\ last.log[i].start.y >= Bottom(terrain[j])
    /\ last.log[i].moved.y < last.log[i].start.y
    /\ CollideRect(last.log[i].moved, terrain[j])

\* C19: in that case handle_y_collisions leaves the entity's top on the
\* block's bottom and its y velocity 0, and, without a landing contact in
\* the pass and not HANGING or CLIMBING, the entity is JUMPING.
C19_CeilingHit ==
    \A i \in 1..MaxSteps + 1, j \in 1..Len(terrain) :
        C19_Case(i, j) =>
            /\ last.log[i].rested.y = Bottom(terrain[j])
            /\ last.log[i].rested.yv = 0
            /\ (~last.log[i].landed
                  /\ last.log[i].rested.state \notin {"HANGING", "CLIMBING"}) =>
                  last.log[i].rested.state = "JUMPING"

\* C19 happens: an IDLE or WALKING entity with the jump velocity went up into
\* a block and is left under it, at rest and JUMPING
C19_Witness ==
    \E i \in 1..MaxSteps + 1, j \in 1..Len(terrain) :
        /\ C19_Case(i, j)
        /\ last.pre.state \in {"IDLE", "WALKING"}
        /\ last.pre.yv = JUMP_VELOCITY
        /\ j \in last.log[i].under
        /\ last.log[i].moved.y < Bottom(terrain[j])
        /\ last.log[i].rested.y = Bottom(terrain[j])
        /\ last.log[i].rested.yv = 0
        /\ last.log[i].rested.state = "JUMPING"

\* a CLIMBING entity climbed up into a block: it is left under it and is
\* still CLIMBING
C19_ReachedClimbing ==
    \E i \in 1..MaxSteps + 1, j \in 1..Len(terrain) :
        /\ C19_Case(i, j)
        /\ last.log[i].rested.state = "CLIMBING"
        /\ last.log[i].rested.y = Bottom(terrain[j])
        /\ last.log[i].rested.yv = 0

\* C29 (as claimed): an entity that overlapped no block other than spikes
\* before the update overlaps none after it.
C29_NoPenetration ==
    (PhysicsDone /\ ~InSolid(last.pre, terrain)) => ~InSolid(player, terrain)

\* the part of C29 that holds in this level: an entity at rest or after one
\* step of fall, updated with the frame time of a 60 Hz clock
C29_HoldsForSlowEntities ==
    (PhysicsDone /\ last.pre.yv \in {0, 60}
        /\ last.dt.unit = "ms" /\ last.dt.a < 20) => ~InSolid(player, terrain)

\* C28 for one physics update from any position, on or off a ladder, with
\* or without a block under the entity: the state of a HANGING or CLIMBING
\* entity is not changed
C28_PhysicsKeepsLadderState ==
    (PhysicsDone /\ last.pre.state \in {"HANGING", "CLIMBING"}) =>
        /\ player.state = last.pre.state
        /\ \A i \in 1..Len(last.steps) : last.steps[i].state = last.pre.state

----------------------------------------------------------------------------
(* UserControlComponent *)

\* a snapshot of the held keys (pg.key.get_pressed)
KeySnapshots == [left : BOOLEAN, right : BOOLEAN, up : BOOLEAN,
                 down : BOOLEAN, space : BOOLEAN]

\* the handlers return [e: the entity, jumps: the JUMP messages sent]
WalkLeft(e, setState) ==
    [e EXCEPT !.state = IF setState THEN "WALKING" ELSE @,
              !.direction = "LEFT",
              !.xv = WALK_LEFT_VELOCITY]

WalkRight(e, setState) ==
    [e EXCEPT !.state = IF setState THEN "WALKING" ELSE @,
              !.direction = "RIGHT",
              !.xv = WALK_RIGHT_VELOCITY]

\* the Space branch shared by the idle, walking and hanging handlers
Jump(e, is_pressed) ==
    IF is_pressed.space
    THEN [e |-> [e EXCEPT !.state = "JUMPING", !.yv = JUMP_VELOCITY], jumps |-> 1]
    ELSE [e |-> e, jumps |-> 0]

\* a faulty variant of handle_idle_entity: the key branches are those of the
\* walking handler, which do not set the state
handle_idle_entity_without_state(entity, is_pressed) ==
    LET e0 == [entity EXCEPT !.xv = ZERO_VELOCITY, !.yv = ZERO_VELOCITY]
        e1 == IF is_pressed.left THEN WalkLeft(e0, FALSE) ELSE e0
        e2 == IF is_pressed.right THEN WalkRight(e1, FALSE) ELSE e1
    IN Jump(e2, is_pressed)

handle_idle_entity(entity, is_pressed) ==
    LET e0 == [entity EXCEPT !.xv = ZERO_VELOCITY, !.yv = ZERO_VELOCITY]
        e1 == IF is_pressed.left THEN WalkLeft(e0, TRUE) ELSE e0
        e2 == IF is_pressed.right THEN WalkRight(e1, TRUE) ELSE e1
    IN Jump(e2, is_pressed)

handle_walking_entity(entity, is_pressed) ==
    LET e1 == IF is_pressed.left THEN WalkLeft(entity, FALSE) ELSE entity
        e2 == IF is_pressed.right THEN WalkRight(e1, FALSE) ELSE e1
        e3 == IF ~(is_pressed.left \/ is_pressed.right)
              THEN [e2 EXCEPT !.state = "IDLE", !.xv = ZERO_VELOCITY]
              ELSE e2
    IN Jump(e3, is_pressed)

\* a faulty variant of handle_jumping_entity: the Right test is an elif of the
\* Left test, so Left wins when both keys are held
handle_jumping_entity_left_first(entity, is_pressed) ==
    LET e1 == IF is_pressed.left THEN WalkLeft(entity, FALSE)
              ELSE IF is_pressed.right THEN WalkRight(entity, FALSE)
              ELSE entity
        e3 == IF ~(is_pressed.left \/ is_pressed.right)
              THEN [e1 EXCEPT !.xv = ZERO_VELOCITY]
              ELSE e1
    IN [e |-> e3, jumps |-> 0]

\* a faulty variant of handle_jumping_entity: it ends with the Space branch of
\* the other handlers, so the player can jump again in mid-air
handle_jumping_entity_with_jump(entity, is_pressed) ==
    LET e1 == IF is_pressed.left THEN WalkLeft(entity, FALSE) ELSE entity
        e2 == IF is_pressed.right THEN WalkRight(e1, FALSE) ELSE e1
        e3 == IF ~(is_pressed.left \/ is_pressed.right)
              THEN [e2 EXCEPT !.xv = ZERO_VELOCITY]
              ELSE e2
    IN Jump(e3, is_pressed)

handle_jumping_entity(entity, is_pressed) ==
    LET e1 == IF is_pressed.left THEN WalkLeft(entity, FALSE) ELSE entity
        e2 == IF is_pressed.right THEN WalkRight(e1, FALSE) ELSE e1
        e3 == IF ~(is_pressed.left \/ is_pressed.right)
              THEN [e2 EXCEPT !.xv = ZERO_VELOCITY]
              ELSE e2
    IN [e |-> e3, jumps |-> 0]

handle_hanging_entity(entity, is_pressed) ==
    LET e0 == [entity EXCEPT !.xv = ZERO_VELOCITY, !.yv = ZERO_VELOCITY]
        e1 == IF is_pressed.up \/ is_pressed.down
              THEN [e0 EXCEPT !.state = "CLIMBING"] ELSE e0
        e2 == IF is_pressed.left THEN [e1 EXCEPT !.direction = "RIGHT"] ELSE e1
        e3 == IF is_pressed.right THEN [e2 EXCEPT !.direction = "LEFT"] ELSE e2
    IN Jump(e3, is_pressed)

\* a faulty variant of handle_climbing_entity: releasing Up and Down does
\* not put the entity back to HANGING
handle_climbing_entity_without_revert(entity, is_pressed) ==
    LET e1 == IF is_pressed.up
              THEN [entity EXCEPT !.yv = CLIMB_UP_VELOCITY] ELSE entity
    IN IF is_pressed.down
       THEN [e1 EXCEPT !.yv = CLIMB_DOWN_VELOCITY] ELSE e1

handle_climbing_entity(entity, is_pressed) ==
    LET e1 == IF is_pressed.up
              THEN [entity EXCEPT !.yv = CLIMB_UP_VELOCITY] ELSE entity
        e2 == IF is_pressed.down
              THEN [e1 EXCEPT !.yv = CLIMB_DOWN_VELOCITY] ELSE e1
    IN IF ~(is_pressed.up \/ is_pressed.down)
       THEN [e2 EXCEPT !.state = "HANGING"]
       ELSE e2

\* UserControlComponent.update: dispatch on the state at entry, then the
\* climbing handler on the state the dispatch left; climbed tells whether
\* the climbing handler ran
ControlUpdate(entity, is_pressed) ==
    LET r == CASE entity.state = "IDLE" -> handle_idle_entity(entity, is_pressed)
               [] entity.state = "WALKING" -> handle_walking_entity(entity, is_pressed)
               [] entity.state = "JUMPING" -> handle_jumping_entity(entity, is_pressed)
               [] entity.state = "HANGING" -> handle_hanging_entity(entity, is_pressed)
               [] OTHER -> [e |-> entity, jumps |-> 0]
    IN IF r.e.state = "CLIMBING"
       THEN [e |-> handle_climbing_entity(r.e, is_pressed), jumps |-> r.jumps,
             climbed |-> TRUE]
       ELSE [e |-> r.e, jumps |-> r.jumps, climbed |-> FALSE]

----------------------------------------------------------------------------
(* EnemyMovementComponent *)

\* Direction.get_reverse: the opposite direction
get_reverse(direction) == IF direction = "LEFT" THEN "RIGHT" ELSE "LEFT"

\* Entity.reverse_direction
reverse_direction(entity) ==
    [entity EXCEPT !.direction = get_reverse(entity.direction)]

\* a faulty variant of EnemyMovementUpdate: the enemy turns only once it is
\* past a bound, not on it
EnemyMovementUpdate_turns_past_bound(e, walking_speed) ==
    LET e0 == [e EXCEPT !.state = "WALKING"]
    IN IF e0.direction = "LEFT"
       THEN IF e0.x >= e0.left_bound
            THEN [e0 EXCEPT !.xv = -walking_speed]
            ELSE [reverse_direction(e0) EXCEPT !.xv = walking_speed]
       ELSE IF e0.direction = "RIGHT"
       THEN IF e0.x <= e0.right_bound
            THEN [e0 EXCEPT !.xv = walking_speed]
            ELSE [reverse_direction(e0) EXCEPT !.xv = -walking_speed]
       ELSE e0

\* EnemyMovementComponent.update, of a component built with walking_speed
EnemyMovementUpdate(e, walking_speed) ==
    LET e0 == [e EXCEPT !.state = "WALKING"]
    IN IF e0.direction = "LEFT"
       THEN IF e0.x > e0.left_bound
            THEN [e0 EXCEPT !.xv = -walking_speed]
            ELSE [reverse_direction(e0) EXCEPT !.xv = walking_speed]
       ELSE IF e0.direction = "RIGHT"
       THEN IF e0.x < e0.right_bound
            THEN [e0 EXCEPT !.xv = walking_speed]
            ELSE [reverse_direction(e0) EXCEPT !.xv = -walking_speed]
       ELSE e0

----------------------------------------------------------------------------
(* Coin *)

\* Coin.__init__ (Block.__init__ with the COIN terrain type): a coin on the
\* tile grid; alive: it is in the map's sprite groups, sent: the RECEIVE_COIN
\* messages it has sent to the entity
NewCoin(col, row) ==
    LET b == Tile(COIN, col, row)
    IN [x |-> b.x, y |-> b.y, w |-> b.w, h |-> b.h, alive |-> TRUE, sent |-> 0]

\* a faulty variant of CoinUpdate: the coin is not removed
CoinUpdate_without_kill(coin, entity) ==
    IF CollideRect(coin, entity) THEN [coin EXCEPT !.sent = @ + 1] ELSE coin

\* Coin.update: message, sound, kill() on overlap with the entity
CoinUpdate(coin, entity) ==
    IF CollideRect(coin, entity)
    THEN [coin EXCEPT !.sent = @ + 1, !.alive = FALSE]
    ELSE coin

\* the map's per-frame update of its blocks: update(entity) on every sprite
\* still in the group
GroupUpdate(group, entity) ==
    [i \in 1..Len(group) |->
        IF group[i].alive THEN CoinUpdate(group[i], entity) ELSE group[i]]

----------------------------------------------------------------------------
(* LadderBlock *)

\* rect.centerx
CenterX(r) == r.x + r.w \div 2

\* LadderBlock.__init__: the block and its sensor mid_rect, one pixel wide at
\* centerx - 0.5 (Rect truncates the float)
NewLadder(col, row) ==
    LET b == Tile(LADDER, col, row)
    IN [x |-> b.x, y |-> b.y, w |-> b.w, h |-> b.h,
        mid_rect |-> [x |-> Trunc(2 * CenterX(b) - 1, 2), y |-> b.y,
                      w |-> 1, h |-> b.h]]

\* a faulty variant of LadderUpdate: the JUMPING test is left out
LadderUpdate_without_jumping_test(ladder, entity, current_keys) ==
    IF /\ CollideRect(ladder.mid_rect, entity)
       /\ (current_keys.up \/ current_keys.down)
    THEN [entity EXCEPT !.x = CenterX(ladder.mid_rect) - entity.w \div 2,
                        !.state = "HANGING"]
    ELSE entity

\* a faulty variant of LadderUpdate: the entity is not centred on the sensor
LadderUpdate_without_centering(ladder, entity, current_keys) ==
    IF /\ CollideRect(ladder.mid_rect, entity)
       /\ entity.state # "JUMPING"
       /\ (current_keys.up \/ current_keys.down)
    THEN [entity EXCEPT !.state = "HANGING"]
    ELSE entity

\* LadderBlock.update
LadderUpdate(ladder, entity, current_keys) ==
    IF /\ CollideRect(ladder.mid_rect, entity)
       /\ entity.state # "JUMPING"
       /\ (current_keys.up \/ current_keys.down)
    THEN [entity EXCEPT !.x = CenterX(ladder.mid_rect) - entity.w \div 2,
                        !.state = "HANGING"]
    ELSE entity

\* the map's per-frame update of its ladders, from ladder i on
RECURSIVE LaddersUpdate(_, _, _, _)
LaddersUpdate(ladders, entity, current_keys, i) ==
    IF i > Len(ladders) THEN entity
    ELSE LaddersUpdate(ladders, LadderUpdate(ladders[i], entity, current_keys),
                       current_keys, i + 1)

----------------------------------------------------------------------------
(* One control update of the player, from any state of the entity *)

CtrlXVelocities == {WALK_LEFT_VELOCITY, ZERO_VELOCITY, WALK_RIGHT_VELOCITY}

CtrlYVelocities ==
    {JUMP_VELOCITY, CLIMB_UP_VELOCITY, ZERO_VELOCITY, GRAVITY, CLIMB_DOWN_VELOCITY}

\* the entities handed to the control update: a CLIMBING one has x velocity
\* 0 and a climbing y velocity (CLIMBING is entered from the hanging handler
\* only, which zeroes x velocity); a HANGING one may have been put on the
\* ladder by LadderBlock.update with any velocity
CtrlStarts ==
    {e \in {Entity(10, 10, PlayerWidth, PlayerHeight, xv, yv, st, d) :
               xv \in CtrlXVelocities, yv \in CtrlYVelocities,
               st \in EntityStates, d \in Directions} :
        e.state = "CLIMBING" => (e.xv = ZERO_VELOCITY /\ e.yv \in ClimbVelocities)}

CtrlInit ==
    /\ terrain = Level
    /\ block = NoBlock
    /\ player \in CtrlStarts
    /\ enemy = NoEnemy
    /\ coins = <<>>
    /\ keys = NoKeys
    /\ tick = 0
    /\ last = NoLast
    /\ pc = "input"

\* one call of UserControlComponent.update with the keys held as in is_pressed
ControlStep(is_pressed) ==
    /\ pc = "input"
    /\ \E r \in {ControlUpdate(player, is_pressed)} :
          /\ player' = r.e
          /\ last' = [op |-> "control", pre |-> player, keys |-> is_pressed,
                      jumps |-> r.jumps, climbed |-> r.climbed]
    /\ keys' = is_pressed
    /\ pc' = "done"
    /\ UNCHANGED <<terrain, block, enemy, coins, tick>>

CtrlNext == \E is_pressed \in KeySnapshots : ControlStep(is_pressed)

CtrlSpec == CtrlInit /\ [][CtrlNext]_vars

----------------------------------------------------------------------------
(* Properties of UserControlComponent.update, checked under CtrlSpec *)

ControlDone == pc = "done" /\ last.op = "control"

\* the case of C9: the player was IDLE, exactly one of Left / Right was held
\* and Space was not
C9_Case ==
    /\ ControlDone
    /\ last.pre.state = "IDLE"
    /\ last.keys.left # last.keys.right
    /\ ~last.keys.space

\* C9: in that case the update leaves state WALKING, the direction of the
\* held key, and x velocity -180 for Left, +180 for Right.
C9_IdleToWalking ==
    C9_Case =>
        /\ player.state = "WALKING"
        /\ player.direction = (IF last.keys.left THEN "LEFT" ELSE "RIGHT")
        /\ player.xv = (IF last.keys.left THEN -180 ELSE 180)

\* C9 witness: an IDLE player facing RIGHT and moving right, Left held alone.
C9_Witness ==
    /\ C9_Case
    /\ last.keys.left
    /\ last.pre.direction = "RIGHT"
    /\ last.pre.xv = WALK_RIGHT_VELOCITY
    /\ player.direction = "LEFT"

\* the other key of C9 is reached too
C9_ReachedRight == C9_Case /\ last.keys.right /\ last.pre.direction = "LEFT"

\* the case of C11: the player was IDLE, WALKING or JUMPING and both Left and
\* Right were held
C11_Case ==
    /\ ControlDone
    /\ last.pre.state \in {"IDLE", "WALKING", "JUMPING"}
    /\ last.keys.left /\ last.keys.right

\* C11: in that case the update leaves direction RIGHT and x velocity +180,
\* whatever the other keys.
C11_RightWinsTie ==
    C11_Case => (player.direction = "RIGHT" /\ player.xv = 180)

\* C11 witness: a JUMPING player facing LEFT and moving left, both keys held.
C11_Witness ==
    /\ C11_Case
    /\ last.pre.state = "JUMPING"
    /\ last.pre.direction = "LEFT"
    /\ last.pre.xv = WALK_LEFT_VELOCITY
    /\ player.direction = "RIGHT"

\* the other states of C11 are reached, with Space held too
C11_ReachedIdleWithSpace ==
    C11_Case /\ last.pre.state = "IDLE" /\ last.keys.space /\ last.pre.direction = "LEFT"

C11_ReachedWalking ==
    C11_Case /\ last.pre.state = "WALKING" /\ last.pre.direction = "LEFT"

\* the jump of C14 is triggered: Space held, the update began in IDLE,
\* WALKING or HANGING
C14_Triggered ==
    last.keys.space /\ last.pre.state \in {"IDLE", "WALKING", "HANGING"}

\* C14: a control update leaves the player JUMPING with y velocity -750 and
\* sends exactly one JUMP message if and only if the jump is triggered;
\* otherwise it sends none, and an update that began in JUMPING or CLIMBING
\* sends none and does not set y velocity to -750.
C14_JumpTrigger ==
    ControlDone =>
        /\ C14_Triggered =>
              (player.state = "JUMPING" /\ player.yv = -750 /\ last.jumps = 1)
        /\ ~C14_Triggered => last.jumps = 0
        /\ last.pre.state \in {"JUMPING", "CLIMBING"} =>
              /\ last.jumps = 0
              /\ player.yv = -750 => last.pre.yv = -750

\* C14 witness: a HANGING player with Up and Space held jumps (the update
\* passes through CLIMBING before Space makes it JUMPING).
C14_Witness ==
    /\ ControlDone
    /\ last.pre.state = "HANGING"
    /\ last.keys.space /\ last.keys.up
    /\ player.state = "JUMPING"
    /\ last.jumps = 1

\* the other side of C14 is reached: Space held in mid-air, no jump
C14_ReachedNoJump ==
    /\ ControlDone
    /\ last.pre.state = "JUMPING"
    /\ last.keys.space
    /\ last.pre.yv = GRAVITY
    /\ player.yv = GRAVITY
    /\ last.jumps = 0

\* C15 (as claimed): a player that is HANGING at the end of a control update
\* has x velocity 0 and y velocity 0.
C15_HangingMotionless ==
    (ControlDone /\ player.state = "HANGING") =>
        (player.xv = 0 /\ player.yv = 0)

\* the part of C15 that holds: an update that began in HANGING and ends in
\* HANGING leaves both velocities 0
C15_HoldsFromHanging ==
    (ControlDone /\ last.pre.state = "HANGING" /\ player.state = "HANGING") =>
        (player.xv = 0 /\ player.yv = 0)

\* the case of C16: the climbing handler ran in the update
C16_Case == ControlDone /\ last.climbed

\* C16: when the climbing handler runs, Up held alone sets y velocity to
\* -120, Down held alone sets it to +180, with neither held the state reverts
\* to HANGING, and the state stays CLIMBING whenever Up or Down is held.
C16_ClimbingControl ==
    C16_Case =>
        /\ (last.keys.up /\ ~last.keys.down) => player.yv = CLIMB_UP_VELOCITY
        /\ (last.keys.down /\ ~last.keys.up) => player.yv = CLIMB_DOWN_VELOCITY
        /\ ~(last.keys.up \/ last.keys.down) => player.state = "HANGING"
        /\ (last.keys.up \/ last.keys.down) => player.state = "CLIMBING"

\* C16 happens: a HANGING player with Up held alone became CLIMBING in the
\* same update and climbs up
C16_Witness ==
    /\ C16_Case
    /\ last.pre.state = "HANGING"
    /\ last.keys.up /\ ~last.keys.down
    /\ player.state = "CLIMBING"
    /\ player.yv = CLIMB_UP_VELOCITY

\* a CLIMBING player with Down held alone climbs down
C16_ReachedDown ==
    /\ C16_Case
    /\ last.pre.state = "CLIMBING"
    /\ last.keys.down /\ ~last.keys.up
    /\ player.state = "CLIMBING"
    /\ player.yv = CLIMB_DOWN_VELOCITY

\* a CLIMBING player with neither held reverts to HANGING
C16_ReachedRevert ==
    /\ C16_Case
    /\ last.pre.state = "CLIMBING"
    /\ ~(last.keys.up \/ last.keys.down)
    /\ player.state = "HANGING"

\* the climbing handler runs exactly for a player that entered CLIMBING, or
\* entered HANGING with Up or Down held and Space not held
C16_HandlerRuns ==
    ControlDone =>
        (last.climbed <=>
            \/ last.pre.state = "CLIMBING"
            \/ /\ last.pre.state = "HANGING"
               /\ last.keys.up \/ last.keys.down
               /\ ~last.keys.space)

\* C28 for one control update: a HANGING or CLIMBING player is left HANGING
\* or CLIMBING, except from HANGING with Space held, which gives JUMPING
C28_ControlKeepsLadderState ==
    (ControlDone /\ last.pre.state \in {"HANGING", "CLIMBING"}) =>
        IF last.pre.state = "HANGING" /\ last.keys.space
        THEN player.state = "JUMPING"
        ELSE player.state \in {"HANGING", "CLIMBING"}

----------------------------------------------------------------------------
(* One patrol update of an enemy *)

\* the size of an enemy's box (PinkGuy)
EnemySize == 32

PatrolPositions == {BLOCK_SIZE * k : k \in 0..MaxPatrol}

\* the speeds a component is built with: the default and a slower one
WalkingSpeeds == {DefaultWalkingSpeed, DefaultWalkingSpeed \div 2}

Enemy(x, xv, state, dir, lb, rb) ==
    [x |-> x, y |-> 0, w |-> EnemySize, h |-> EnemySize, xv |-> xv, yv |-> 0,
     state |-> state, direction |-> dir, left_bound |-> lb, right_bound |-> rb]

EnemyInit ==
    /\ terrain = Level
    /\ block = NoBlock
    /\ player = NewPlayer(10, 10)
    /\ enemy \in {Enemy(x, xv, st, d, lb, rb) :
                     x \in PatrolPositions,
                     xv \in {-DefaultWalkingSpeed, 0, DefaultWalkingSpeed},
                     st \in {"IDLE", "WALKING", "JUMPING"}, d \in Directions,
                     lb \in PatrolPositions, rb \in PatrolPositions}
    /\ coins = <<>>
    /\ keys = NoKeys
    /\ tick = 0
    /\ last = NoLast
    /\ pc = "input"

\* one call of EnemyMovementComponent(walking_speed).update(enemy)
EnemyStep(walking_speed) ==
    /\ pc = "input"
    /\ enemy' = EnemyMovementUpdate(enemy, walking_speed)
    /\ last' = [op |-> "patrol", pre |-> enemy, speed |-> walking_speed]
    /\ pc' = "done"
    /\ UNCHANGED <<terrain, block, player, coins, keys, tick>>

EnemyNext == \E walking_speed \in WalkingSpeeds : EnemyStep(walking_speed)

EnemySpec == EnemyInit /\ [][EnemyNext]_vars

----------------------------------------------------------------------------
(* Properties of EnemyMovementComponent.update, checked under EnemySpec *)

PatrolDone == pc = "done" /\ last.op = "patrol"

\* C10: after a patrol update the enemy is WALKING; one that faced LEFT with
\* x > left_bound faces LEFT with x velocity -speed, one that faced LEFT with
\* x <= left_bound faces RIGHT with x velocity +speed, and symmetrically for
\* RIGHT and right_bound; the speed is 90 for the default component.
C10_PatrolTick ==
    PatrolDone =>
        LET pre == last.pre
            speed == last.speed
        IN /\ enemy.state = "WALKING"
           /\ (pre.direction = "LEFT" /\ pre.x > pre.left_bound) =>
                  (enemy.direction = "LEFT" /\ enemy.xv = -speed)
           /\ (pre.direction = "LEFT" /\ pre.x <= pre.left_bound) =>
                  (enemy.direction = "RIGHT" /\ enemy.xv = speed)
           /\ (pre.direction = "RIGHT" /\ pre.x < pre.right_bound) =>
                  (enemy.direction = "RIGHT" /\ enemy.xv = speed)
           /\ (pre.direction = "RIGHT" /\ pre.x >= pre.right_bound) =>
                  (enemy.direction = "LEFT" /\ enemy.xv = -speed)
           /\ (enemy.xv < 0) = (enemy.direction = "LEFT")
           /\ (enemy.xv > 0) = (enemy.direction = "RIGHT")
           /\ (speed = DefaultWalkingSpeed => enemy.xv \in {-90, 90})

\* C10 witness: an enemy facing LEFT exactly on its left bound turned round.
C10_Witness ==
    /\ PatrolDone
    /\ last.pre.direction = "LEFT"
    /\ last.pre.x = last.pre.left_bound
    /\ last.pre.x < last.pre.right_bound
    /\ enemy.direction = "RIGHT"
    /\ enemy.xv = 90

\* the other cases of C10 are reached: walking on to the left, turning on the
\* right bound, walking on to the right, turning past a bound
C10_ReachedKeepLeft ==
    /\ PatrolDone
    /\ last.pre.direction = "LEFT"
    /\ last.pre.x > last.pre.left_bound
    /\ enemy.direction = "LEFT"

C10_ReachedTurnRight ==
    /\ PatrolDone
    /\ last.pre.direction = "RIGHT"
    /\ last.pre.x = last.pre.right_bound
    /\ enemy.direction = "LEFT"

C10_ReachedKeepRight ==
    /\ PatrolDone
    /\ last.pre.direction = "RIGHT"
    /\ last.pre.x < last.pre.right_bound
    /\ enemy.direction = "RIGHT"

C10_ReachedPastBound ==
    /\ PatrolDone
    /\ last.pre.direction = "LEFT"
    /\ last.pre.x < last.pre.left_bound
    /\ enemy.direction = "RIGHT"

----------------------------------------------------------------------------
(* One physics update of an enemy *)

\* a corridor: on the left a wall one block high, on the right a wall two
\* blocks high, and a floor under all columns
EnemyLevel ==
    << Tile(WALL_LEFT, 0, 4),
       Tile(WALL_RIGHT, MapColumns - 1, 3),
       Tile(WALL_RIGHT, MapColumns - 1, 4) >>
        \o [c \in 1..MapColumns |-> Tile(FLOOR, c - 1, 5)]

\* the x positions of an enemy standing in the corridor
CorridorXs == BLOCK_SIZE .. ((MapColumns - 1) * BLOCK_SIZE - EnemySize)

\* an enemy on the floor of the corridor, as EnemyMovementComponent.update
\* leaves it: WALKING, its x velocity matching its direction
CorridorEnemy(x, dir, walking_speed) ==
    [Enemy(x, IF dir = "LEFT" THEN -walking_speed ELSE walking_speed,
           "WALKING", dir, BLOCK_SIZE, BLOCK_SIZE)
        EXCEPT !.y = 5 * BLOCK_SIZE - EnemySize]

EnemyPhysInit ==
    /\ terrain = EnemyLevel
    /\ block = NoBlock
    /\ player = NewPlayer(10, 10)
    /\ enemy \in {CorridorEnemy(x, d, v) :
                     x \in CorridorXs, d \in Directions, v \in WalkingSpeeds}
    /\ coins = <<>>
    /\ keys = NoKeys
    /\ tick = 0
    /\ last = NoLast
    /\ pc = "input"

\* one call of EnemyPhysicsComponent().update(delta_time, enemy, map)
EnemyPhysicsStep(dt) ==
    /\ pc = "input"
    /\ \E r \in {EnemyPhysicsUpdate(enemy, dt, terrain, MapWidth)} :
          /\ enemy' = r.e
          /\ last' = [op |-> "enemy physics", pre |-> enemy, dt |-> dt,
                      steps |-> r.steps, log |-> r.log]
    /\ pc' = "done"
    /\ UNCHANGED <<terrain, block, player, coins, keys, tick>>

EnemyPhysNext == \E dt \in DeltaTimes : EnemyPhysicsStep(dt)

EnemyPhysSpec == EnemyPhysInit /\ [][EnemyPhysNext]_vars

----------------------------------------------------------------------------
(* Properties of EnemyPhysicsComponent.handle_x_collisions, checked under   *)
(* EnemyPhysSpec                                                            *)

EnemyPhysicsDone == pc = "done" /\ last.op = "enemy physics"

\* the blocks the enemy overlaps when the horizontal pass of sub-step i
\* begins; the enemy stands on the floor, so they are blocks of a wall
Touched(i) ==
    {j \in 1..Len(terrain) : CollideRect(last.log[i].pushed, terrain[j])}

\* the pass of sub-step i left the enemy out of every block, with its
\* direction and the sign of its x velocity reversed
Bounced(i) ==
    /\ \A j \in 1..Len(terrain) : ~CollideRect(last.steps[i], terrain[j])
    /\ last.steps[i].direction # last.log[i].pushed.direction
    /\ Sgn(last.steps[i].xv) = -Sgn(last.log[i].pushed.xv)
    /\ last.steps[i].xv # 0

\* C20 (as claimed): whenever the enemy touches terrain horizontally, one
\* block or several blocks of a wall at once, the pass leaves it snapped out
\* of the wall with its direction and the sign of its x velocity reversed.
C20_EnemyBounce ==
    EnemyPhysicsDone =>
        \A i \in 1..Len(last.log) : Touched(i) # {} => Bounced(i)

\* the part of C20 that holds: a contact with one block
C20_HoldsForOneBlock ==
    EnemyPhysicsDone =>
        \A i \in 1..Len(last.log) : Cardinality(Touched(i)) = 1 => Bounced(i)

\* a contact with one block happens, and the enemy bounces
C20_ReachedOneBlock ==
    /\ EnemyPhysicsDone
    /\ \E i \in 1..Len(last.log) : Cardinality(Touched(i)) = 1 /\ Bounced(i)

\* a contact with the two blocks of the right wall: the enemy is snapped out
\* and faces LEFT, and its x velocity is what it was
C20_ReachedTwoBlocks ==
    /\ EnemyPhysicsDone
    /\ \E i \in 1..Len(last.log) :
          /\ Cardinality(Touched(i)) = 2
          /\ last.log[i].pushed.direction = "RIGHT"
          /\ last.steps[i].direction = "LEFT"
          /\ Right(last.steps[i]) = (MapColumns - 1) * BLOCK_SIZE
          /\ last.steps[i].xv = last.log[i].pushed.xv

----------------------------------------------------------------------------
(* One physics update of an enemy on a floor that ends in a spike *)

\* a floor under all columns and a spike lying on its last block
EnemyHazardLevel ==
    << Tile(SPIKES_UPRIGHT, MapColumns - 1, 4) >>
        \o [c \in 1..MapColumns |-> Tile(FLOOR, c - 1, 5)]

\* the x positions of an enemy standing on the floor beside the spike
HazardXs == 0 .. ((MapColumns - 1) * BLOCK_SIZE - EnemySize)

EnemyHazardInit ==
    /\ terrain = EnemyHazardLevel
    /\ block = NoBlock
    /\ player = NewPlayer(10, 10)
    /\ enemy \in {CorridorEnemy(x, d, v) :
                     x \in HazardXs, d \in Directions, v \in WalkingSpeeds}
    /\ coins = <<>>
    /\ keys = NoKeys
    /\ tick = 0
    /\ last = NoLast
    /\ pc = "input"

EnemyHazardSpec == EnemyHazardInit /\ [][EnemyPhysNext]_vars

----------------------------------------------------------------------------
(* Properties of EnemyPhysicsComponent.handle_x_collisions on hazardous      *)
(* blocks, checked under EnemyHazardSpec (C21_NoSpuriousBounce also under    *)
(* EnemyPhysSpec)                                                            *)

\* the iterations of the loops of the horizontal passes of the update
EnemyVisits ==
    UNION {{last.log[i].visits[j] : j \in 1..Len(last.log[i].visits)} :
             i \in 1..Len(last.log)}

\* the iteration v left the enemy's x position, direction and x velocity as
\* they were
Untouched(v) ==
    /\ v.to.x = v.at.x
    /\ v.to.direction = v.at.direction
    /\ v.to.xv = v.at.xv

\* C21 (as claimed): a block flagged hazardous, and a block of the list that
\* the enemy has no horizontal contact with (neither of its edges lies
\* strictly within the block's extent), leave the enemy's x position,
\* direction and x velocity unchanged.
C21_OnlySolidContactActs ==
    EnemyPhysicsDone =>
        \A v \in EnemyVisits :
            (\/ terrain[v.block].is_spike
             \/ ~(is_colliding_from_right(v.at, terrain[v.block])
                   \/ is_colliding_from_left(v.at, terrain[v.block]))) =>
                Untouched(v)

\* the second half of C21 alone: a block without horizontal contact leaves
\* the three unchanged (violated under EnemyPhysSpec by the second block of
\* the wall)
C21_NoSpuriousBounce ==
    EnemyPhysicsDone =>
        \A v \in EnemyVisits :
            ~(is_colliding_from_right(v.at, terrain[v.block])
              \/ is_colliding_from_left(v.at, terrain[v.block])) =>
                Untouched(v)

\* what the code does with a spike: an enemy walking right that entered the
\* spike is put back at the spike's left, facing LEFT, its x velocity reversed
C21_ReachedSpikeBounce ==
    /\ EnemyPhysicsDone
    /\ \E v \in EnemyVisits :
          /\ terrain[v.block].is_spike
          /\ v.at.direction = "RIGHT" /\ v.at.xv > 0
          /\ Right(v.at) > terrain[v.block].x
          /\ Right(v.to) = terrain[v.block].x
          /\ v.to.direction = "LEFT"
          /\ v.to.xv = -v.at.xv

\* the part of C21 that holds: a block without horizontal contact leaves the
\* enemy's x position and direction unchanged
C21_HoldsForPositionAndDirection ==
    EnemyPhysicsDone =>
        \A v \in EnemyVisits :
            ~(is_colliding_from_right(v.at, terrain[v.block])
              \/ is_colliding_from_left(v.at, terrain[v.block])) =>
                (v.to.x = v.at.x /\ v.to.direction = v.at.direction)

----------------------------------------------------------------------------
(* The game loop: per frame, the player's control update, its physics      *)
(* update, then the update of the map's blocks                              *)

\* Player.DEFAULT_STARTING_POS, and a start on the floor of column 1
GameStarts == {<<10, 10>>, <<28, Level[5].y - PlayerHeight>>}

\* clock.tick(60) / 1000: the frames of a 60 Hz clock and a lag spike
GameDeltaTimes == {[unit |-> "ms", a |-> m] : m \in {16, 17, 100}}

\* the ladder of the level: two tiles, one on the other, over the floor of
\* column 1
Ladders == <<NewLadder(1, 4), NewLadder(1, 3)>>

GameInit ==
    /\ terrain = Level
    /\ block = NoBlock
    /\ player \in {NewPlayer(p[1], p[2]) : p \in GameStarts}
    /\ enemy = NoEnemy
    /\ coins = <<NewCoin(1, 4), NewCoin(0, 4)>>
    /\ keys = NoKeys
    /\ tick = 0
    /\ last = NoLast
    /\ pc = "control"

\* Player.update: input_component.update()
GameControl(is_pressed) ==
    /\ pc = "control"
    /\ tick < MaxTicks
    /\ player' = ControlUpdate(player, is_pressed).e
    /\ keys' = is_pressed
    /\ last' = [op |-> "control", from |-> player.state]
    /\ pc' = "physics"
    /\ UNCHANGED <<terrain, block, enemy, coins, tick>>

\* Player.update: the physics update with the frame's elapsed time
GamePhysics(dt) ==
    /\ pc = "physics"
    /\ \E r \in {PhysicsUpdate(player, dt, terrain, MapWidth)} :
          /\ player' = r.e
          /\ last' = [op |-> "physics", landed |-> r.landed]
    /\ pc' = "blocks"
    /\ UNCHANGED <<terrain, block, enemy, coins, keys, tick>>

\* the update of the map's blocks, with the keys of the frame: the ladders
\* and the coins, in either order; seen: the player as the coins' update got
\* it, passed: the coins consumed in an earlier frame whose place that player
\* overlaps, climb_keys: Up or Down was held. The frame ends here: the next
\* one reads the keys anew.
GameBlocks ==
    /\ pc = "blocks"
    /\ \E ladders_first \in BOOLEAN :
          LET climber == LaddersUpdate(Ladders, player, keys, 1)
              seen == IF ladders_first THEN climber ELSE player
          IN /\ player' = climber
             /\ coins' = GroupUpdate(coins, seen)
             /\ last' = [op |-> "blocks",
                         climb_keys |-> (keys.up \/ keys.down),
                         seen |-> seen,
                         passed |-> {i \in 1..Len(coins) :
                                       ~coins[i].alive /\ CollideRect(coins[i], seen)}]
    /\ keys' = NoKeys
    /\ tick' = tick + 1
    /\ pc' = "control"
    /\ UNCHANGED <<terrain, block, enemy>>

GameNext ==
    \/ \E is_pressed \in KeySnapshots : GameControl(is_pressed)
    \/ \E dt \in GameDeltaTimes : GamePhysics(dt)
    \/ GameBlocks

GameSpec == GameInit /\ [][GameNext]_vars

----------------------------------------------------------------------------
(* Properties of Coin.update, checked under GameSpec *)

\* C7: over any sequence of frames a coin sends at most one RECEIVE_COIN; it
\* has sent it exactly when it has been removed, and no coin that is still in
\* the map overlaps the player when the blocks' update returns (so the message
\* is sent, and the coin removed, in the first update that finds the overlap).
C7_CoinConsumedOnce ==
    \A i \in 1..Len(coins) :
        /\ coins[i].sent <= 1
        /\ (coins[i].sent = 1) = ~coins[i].alive
        /\ last.op = "blocks" =>
              ~(coins[i].alive /\ CollideRect(coins[i], last.seen))

\* C7 (action form): a step sends a coin's message only as it removes that
\* coin, and never for a coin already removed.
C7_SentOnlyOnRemoval ==
    [][\A i \in 1..Len(coins) :
          coins'[i].sent # coins[i].sent =>
              /\ coins[i].alive /\ ~coins'[i].alive
              /\ coins'[i].sent = coins[i].sent + 1
              /\ CollideRect(coins[i], last'.seen)]_vars

\* C7 witness: the blocks' update ran with the player over the place of a coin
\* consumed in an earlier frame, and that coin has still sent one message.
C7_Witness ==
    /\ last.op = "blocks"
    /\ \E i \in last.passed : coins[i].sent = 1 /\ ~coins[i].alive

\* both coins are collected in some run
C7_ReachedBoth == \A i \in 1..Len(coins) : coins[i].sent = 1

----------------------------------------------------------------------------
(* Properties of the entity's state over the frames, checked under GameSpec *)

\* the sensor of some ladder overlaps the entity
OnLadder(entity) ==
    \E i \in 1..Len(Ladders) : CollideRect(Ladders[i].mid_rect, entity)

\* C13: a step from a state in which the player is JUMPING leaves it JUMPING,
\* except a physics update with a landing contact, which may leave it IDLE;
\* the control update keeps it JUMPING for every key snapshot and the blocks'
\* update (the ladders) does not change a JUMPING player at all.
C13_JumpingLeftOnlyByLanding ==
    [][player.state = "JUMPING" =>
          /\ pc = "control" => player'.state = "JUMPING"
          /\ pc = "blocks" => player' = player
          /\ pc = "physics" =>
                \/ player'.state = "JUMPING"
                \/ player'.state = "IDLE" /\ last'.landed]_vars

\* C13 witness: the blocks' update ran on a JUMPING player over a ladder's
\* sensor with Up or Down held.
C13_Witness ==
    /\ last.op = "blocks"
    /\ last.climb_keys
    /\ player.state = "JUMPING"
    /\ OnLadder(player)

\* a landing that takes the player from JUMPING to IDLE is reached
C13_ReachedLanding ==
    /\ last.op = "physics"
    /\ last.landed
    /\ player.state = "IDLE"
    /\ tick >= 1

\* C28: a step from a state in which the player is HANGING or CLIMBING leaves
\* it HANGING or CLIMBING, except a control update that began in HANGING with
\* Space held, which leaves it JUMPING; a physics update leaves the state of
\* such a player as it was.
C28_LadderStatesLeftOnlyByJump ==
    [][player.state \in {"HANGING", "CLIMBING"} =>
          /\ pc = "control" =>
                IF player.state = "HANGING" /\ keys'.space
                THEN player'.state = "JUMPING"
                ELSE player'.state \in {"HANGING", "CLIMBING"}
          /\ pc = "physics" => player'.state = player.state
          /\ pc = "blocks" => player'.state \in {"HANGING", "CLIMBING"}]_vars

\* some block's top is under the entity's feet
Supported(entity) ==
    \E i \in 1..Len(terrain) :
        SameColumn(entity, terrain[i]) /\ Bottom(entity) = terrain[i].y

\* C28 witness: a physics update ran on a CLIMBING player that has no block
\* under its feet, and left it CLIMBING.
C28_Witness ==
    /\ last.op = "physics"
    /\ player.state = "CLIMBING"
    /\ ~Supported(player)

\* the way out is reached: a control update that began in HANGING with Space
\* held left the player JUMPING
C28_ReachedJump ==
    /\ last.op = "control"
    /\ last.from = "HANGING"
    /\ keys.space
    /\ player.state = "JUMPING"

\* a HANGING player stays HANGING through a whole frame without keys
C28_ReachedHangingFrame ==
    /\ last.op = "blocks"
    /\ ~last.climb_keys
    /\ player.state = "HANGING"
    /\ tick >= 2

----------------------------------------------------------------------------
(* SpikeBlock, GatewayBlock, FallingBlock, MovingBlock, PushableBlock *)

ENTRANCE_EXIT == [pos_x |-> 0, pos_y |-> -50, width |-> 100, height |-> 150, is_spike |-> FALSE]
FALLING_BLOCK == [pos_x |-> 0, pos_y |-> 0, width |-> 100, height |-> 100, is_spike |-> FALSE]
MOVING_BLOCK == [pos_x |-> 0, pos_y |-> 0, width |-> 100, height |-> 100, is_spike |-> FALSE]
PUSHABLE == [pos_x |-> 0, pos_y |-> 0, width |-> 100, height |-> 100, is_spike |-> FALSE]

\* rect.centery
CenterY(r) == r.y + r.h \div 2

\* pygame Rect.collidepoint: the right and bottom borders are outside the box
CollidePoint(r, px, py) ==
    /\ r.x <= px
    /\ px < Right(r)
    /\ r.y <= py
    /\ py < Bottom(r)

\* the test shared by the updates of SpikeBlock, FallingBlock and MovingBlock:
\* one of the player's vertical edges is strictly between the block's
EdgeWithin(b, entity) ==
    \/ b.x < entity.x /\ entity.x < Right(b)
    \/ b.x < Right(entity) /\ Right(entity) < Right(b)

\* rect.bottom = v
SetBottom(r, v) == [r EXCEPT !.y = v - r.h]

\* a faulty variant of SpikeUpdate: the overlapping player is not put on top
SpikeUpdate_without_snap(spike, entity) ==
    [player |-> entity,
     messages |-> IF EdgeWithin(spike, entity) /\ spike.y = Bottom(entity)
                  THEN 1 ELSE 0]

\* SpikeBlock.update: the player after it and the LAND_ON_SPIKE messages sent
SpikeUpdate(spike, entity) ==
    LET snapped == IF CollideRect(spike, entity)
                   THEN SetBottom(entity, spike.y) ELSE entity
    IN [player |-> snapped,
        messages |-> IF EdgeWithin(spike, snapped) /\ spike.y = Bottom(snapped)
                     THEN 1 ELSE 0]

\* GatewayBlock.update: the SWITCH_LEVEL events posted
GatewayUpdate(gateway, entity) ==
    IF CollidePoint(entity, CenterX(gateway), CenterY(gateway)) THEN 1 ELSE 0

\* FallingBlock.__init__
NewFalling(col, row) ==
    LET b == Tile(FALLING_BLOCK, col, row)
    IN [x |-> b.x, y |-> b.y, w |-> b.w, h |-> b.h, vel |-> 1, fallen |-> FALSE]

\* the loop of FallingBlock.update over the sprites that collide with the
\* block, from sprite i of the list on
RECURSIVE FallingLoop(_, _, _)
FallingLoop(b, sprites, i) ==
    IF i > Len(sprites) THEN b
    ELSE LET s == sprites[i]
         IN FallingLoop(IF s.y < Bottom(b) /\ Bottom(b) < Bottom(s)
                        THEN [SetBottom(b, s.y) EXCEPT !.fallen = TRUE]
                        ELSE b,
                        sprites, i + 1)

\* FallingBlock.update: the block and the player after it
FallingUpdate(b, entity, group) ==
    LET rides == /\ b.y = Bottom(entity)
                 /\ ~b.fallen
                 /\ EdgeWithin(b, entity)
        moved == IF rides THEN [b EXCEPT !.y = @ + b.vel] ELSE b
        carried == IF rides THEN SetBottom(entity, moved.y) ELSE entity
    IN [block |-> FallingLoop(moved, SelectSeq(group,
                                  LAMBDA s : CollideRect(s, moved)), 1),
        player |-> carried]

\* MovingBlock.__init__
NewMoving(col, row) ==
    LET b == Tile(MOVING_BLOCK, col, row)
    IN [x |-> b.x, y |-> b.y, w |-> b.w, h |-> b.h, vel |-> 1]

\* MovingBlock.update: the block and the player after it
MovingUpdate(b, entity, current_keys) ==
    IF /\ b.y = Bottom(entity)
       /\ EdgeWithin(b, entity)
       /\ entity.state \notin {"HANGING", "CLIMBING"}
    THEN LET b1 == IF entity.direction = "LEFT"
                   THEN [b EXCEPT !.x = @ - b.vel] ELSE b
             e1 == IF entity.direction = "LEFT"
                   THEN [entity EXCEPT !.x = b1.x] ELSE entity
             b2 == IF e1.direction = "RIGHT"
                   THEN [b1 EXCEPT !.x = @ + b.vel] ELSE b1
             e2 == IF e1.direction = "RIGHT"
                   THEN [e1 EXCEPT !.x = b2.x] ELSE e1
             b3 == IF current_keys.up THEN [b2 EXCEPT !.y = @ - b.vel]
                   ELSE IF current_keys.down THEN [b2 EXCEPT !.y = @ + b.vel]
                   ELSE b2
             e3 == IF current_keys.up \/ current_keys.down
                   THEN SetBottom(e2, b3.y) ELSE e2
         IN [block |-> b3, player |-> e3]
    ELSE [block |-> b, player |-> entity]

\* PushableBlock.__init__
NewPushable(col, row) ==
    LET b == Tile(PUSHABLE, col, row)
    IN [x |-> b.x, y |-> b.y, w |-> b.w, h |-> b.h,
        y_velocity |-> 1, gravity |-> 1]

\* the push test of PushableBlock.update
IsPushed(b, entity) ==
    /\ b.x = Right(entity) \/ Right(b) = entity.x
    /\ entity.state = "WALKING"
    /\ Bottom(entity) = Bottom(b)

\* a faulty variant of PushX: the block moves toward the player
PushX_toward_player(b, entity) ==
    Trunc(20 * b.x - (CenterX(b) - CenterX(entity)), 20)

\* rect.x += (rect.centerx - player.rect.centerx) / 20: the float sum is
\* truncated by the Rect
PushX(b, entity) ==
    Trunc(20 * b.x + (CenterX(b) - CenterX(entity)), 20)

\* the first loop of PushableBlock.update, from sprite i of the list on
RECURSIVE PushXLoop(_, _, _)
PushXLoop(b, sprites, i) ==
    IF i > Len(sprites) THEN b
    ELSE LET s == sprites[i]
             b1 == IF s.x < b.x /\ b.x < Right(s)
                   THEN [b EXCEPT !.x = Right(s)] ELSE b
             b2 == IF s.x < Right(b1) /\ Right(b1) < Right(s)
                   THEN [b1 EXCEPT !.x = s.x - b1.w] ELSE b1
         IN PushXLoop(b2, sprites, i + 1)

\* the second loop of PushableBlock.update, from sprite i of the list on
RECURSIVE PushYLoop(_, _, _)
PushYLoop(b, sprites, i) ==
    IF i > Len(sprites) THEN b
    ELSE LET s == sprites[i]
             b1 == IF s.y < b.y /\ b.y < Bottom(s)
                   THEN [b EXCEPT !.y = Bottom(s), !.y_velocity = 0] ELSE b
             b2 == IF s.y < Bottom(b1) /\ Bottom(b1) < Bottom(s)
                   THEN [SetBottom(b1, s.y) EXCEPT !.y_velocity = 0] ELSE b1
         IN PushYLoop(b2, sprites, i + 1)

\* PushableBlock.update: the block after the push, after the first loop and
\* at the end
PushableUpdate(b, entity, group) ==
    LET pushed == IF IsPushed(b, entity)
                  THEN [b EXCEPT !.x = PushX(b, entity)] ELSE b
        snapped == PushXLoop(pushed, SelectSeq(group,
                                 LAMBDA s : CollideRect(s, pushed)), 1)
        pulled == [snapped EXCEPT !.y_velocity = @ + snapped.gravity,
                                  !.y = @ + snapped.y_velocity + snapped.gravity]
    IN [pushed |-> pushed, snapped |-> snapped,
        block |-> PushYLoop(pulled, SelectSeq(group,
                                LAMBDA s : CollideRect(s, pulled)), 1)]

----------------------------------------------------------------------------
(* One update of a block, from any placement of the player around it *)

\* a floor under every column and a solid block on it in the last column
BlockLevel ==
    [c \in 1..MapColumns |-> Tile(FLOOR, c - 1, 5)]
        \o << Tile(FLOOR, MapColumns - 1, 4) >>

\* the block under update, standing on the floor in column col
BlockColumns == {1, MapColumns - 2}

NewBlocks ==
    UNION {{[kind |-> "spike", box |-> Tile(SPIKES_UPRIGHT, col, 4)],
            [kind |-> "gateway", box |-> Tile(ENTRANCE_EXIT, col, 4)],
            [kind |-> "moving", box |-> NewMoving(col, 4)],
            [kind |-> "ladder", box |-> NewLadder(col, 4)],
            [kind |-> "pushable",
             box |-> [NewPushable(col, 4) EXCEPT !.y_velocity = 0]]} :
           col \in BlockColumns}

\* the player's left edge, relative to the block's: clear of the block, flush
\* against a side, one edge inside, both edges inside
SideOffsets == {-21, -20, -19, -9, -7, 0, 2, 5, 12, 13, 24, 25}

\* the player's top: above every block, on a full block, in its upper part,
\* on a spike, in a spike, on the floor
PlayerTops == {60, 70, 75, 87, 90, 95}

\* the velocities and directions the control component leaves with a state
BlockPlayers(b) ==
    {e \in {Entity(b.box.x + dx, y, PlayerWidth, PlayerHeight, xv,
                   ZERO_VELOCITY, st, d) :
               dx \in SideOffsets, y \in PlayerTops,
               xv \in {WALK_LEFT_VELOCITY, ZERO_VELOCITY, WALK_RIGHT_VELOCITY},
               st \in EntityStates, d \in Directions} :
        /\ e.x >= 0
        /\ ~InSolid(e, BlockLevel)
        /\ b.kind \in {"moving", "pushable"} => ~CollideRect(b.box, e)
        /\ e.state \in {"IDLE", "HANGING", "CLIMBING"} => e.xv = ZERO_VELOCITY
        /\ e.state = "WALKING" => e.xv # ZERO_VELOCITY
        /\ e.xv < 0 => e.direction = "LEFT"
        /\ e.xv > 0 => e.direction = "RIGHT"}

BlockInit ==
    /\ terrain = BlockLevel
    /\ block \in NewBlocks
    /\ player \in BlockPlayers(block)
    /\ enemy = NoEnemy
    /\ coins = <<>>
    /\ keys = NoKeys
    /\ tick = 0
    /\ last = NoLast
    /\ pc = "input"

\* one call of SpikeBlock.update(player)
SpikeStep ==
    /\ pc = "input"
    /\ block.kind = "spike"
    /\ \E r \in {SpikeUpdate(block.box, player)} :
          /\ player' = r.player
          /\ last' = [op |-> "spike", pre |-> player, messages |-> r.messages]
    /\ pc' = "done"
    /\ UNCHANGED <<terrain, block, enemy, coins, keys, tick>>

\* one call of GatewayBlock.update(player)
GatewayStep ==
    /\ pc = "input"
    /\ block.kind = "gateway"
    /\ last' = [op |-> "gateway", pre |-> player,
                events |-> GatewayUpdate(block.box, player)]
    /\ pc' = "done"
    /\ UNCHANGED <<terrain, block, player, enemy, coins, keys, tick>>

\* the keys that the updates of MovingBlock and LadderBlock read
ClimbKeys == {k \in KeySnapshots : ~k.left /\ ~k.right /\ ~k.space}

\* one call of MovingBlock.update(player) with the keys held as in is_pressed
MovingStep(is_pressed) ==
    /\ pc = "input"
    /\ block.kind = "moving"
    /\ \E r \in {MovingUpdate(block.box, player, is_pressed)} :
          /\ block' = [block EXCEPT !.box = r.block]
          /\ player' = r.player
    /\ last' = [op |-> "moving", pre |-> player, was |-> block.box]
    /\ keys' = is_pressed
    /\ pc' = "done"
    /\ UNCHANGED <<terrain, enemy, coins, tick>>

\* one call of LadderBlock.update(player) with the keys held as in is_pressed
LadderStep(is_pressed) ==
    /\ pc = "input"
    /\ block.kind = "ladder"
    /\ player' = LadderUpdate(block.box, player, is_pressed)
    /\ last' = [op |-> "ladder", pre |-> player]
    /\ keys' = is_pressed
    /\ pc' = "done"
    /\ UNCHANGED <<terrain, block, enemy, coins, tick>>

\* one call of PushableBlock.update(player, terrain_group); the block itself
\* is in the group and passes none of the tests against its own box
PushableStep ==
    /\ pc = "input"
    /\ block.kind = "pushable"
    /\ \E r \in {PushableUpdate(block.box, player, terrain)} :
          /\ block' = [block EXCEPT !.box = r.block]
          /\ last' = [op |-> "pushable", pre |-> player, was |-> block.box,
                      pushed |-> r.pushed, snapped |-> r.snapped]
    /\ pc' = "done"
    /\ UNCHANGED <<terrain, player, enemy, coins, keys, tick>>

BlockNext ==
    \/ SpikeStep
    \/ GatewayStep
    \/ \E is_pressed \in ClimbKeys : MovingStep(is_pressed)
    \/ \E is_pressed \in ClimbKeys : LadderStep(is_pressed)
    \/ PushableStep

BlockSpec == BlockInit /\ [][BlockNext]_vars

----------------------------------------------------------------------------
(* Properties of one update of a block *)

\* C22: after SpikeBlock.update, a player whose box overlapped the spike's box
\* when the update began has its bottom on the spike's top, and the update
\* sends LAND_ON_SPIKE exactly when, after that snap, the player's bottom is on
\* the spike's top and its left or right edge is strictly between the spike's
\* left and right edges
C22_SpikeContact ==
    last.op = "spike" =>
        /\ CollideRect(block.box, last.pre) => Bottom(player) = block.box.y
        /\ last.messages \in {0, 1}
        /\ last.messages = 1 <=>
              /\ Bottom(player) = block.box.y
              /\ \/ block.box.x < player.x /\ player.x < Right(block.box)
                 \/ block.box.x < Right(player) /\ Right(player) < Right(block.box)

\* an overlapping player was lifted onto the spike and the message was sent
C22_Witness ==
    /\ last.op = "spike"
    /\ CollideRect(block.box, last.pre)
    /\ player.y < last.pre.y
    /\ last.messages = 1

\* a player standing on the spike with an edge flush to the spike's side and
\* the other outside gets no message
C22_ReachedFlushSide ==
    /\ last.op = "spike"
    /\ Bottom(player) = block.box.y
    /\ Right(player) = block.box.x
    /\ last.messages = 0

\* C23: GatewayBlock.update posts a switch-level event if and only if the
\* player's centre point lies inside the gateway's own box
C23_GatewayTrigger ==
    last.op = "gateway" =>
        (last.events = 1 <=>
            CollidePoint(block.box, CenterX(last.pre), CenterY(last.pre)))

\* what the update tests: the gateway's centre point inside the player's box
C23_HoldsForGatewayCentre ==
    last.op = "gateway" =>
        /\ last.events \in {0, 1}
        /\ last.events = 1 <=>
              CollidePoint(last.pre, CenterX(block.box), CenterY(block.box))

\* a player on the floor, its centre inside the gateway's box, posts nothing
C23_ReachedSilentInside ==
    /\ last.op = "gateway"
    /\ Bottom(last.pre) = Bottom(block.box)
    /\ CollidePoint(block.box, CenterX(last.pre), CenterY(last.pre))
    /\ last.events = 0

\* the event is posted
C23_ReachedEvent ==
    /\ last.op = "gateway"
    /\ last.events = 1

\* the player stood on the block when the update began: feet exactly on its
\* top, an edge strictly inside, neither HANGING nor CLIMBING
Riding ==
    /\ last.was.y = Bottom(last.pre)
    /\ EdgeWithin(last.was, last.pre)
    /\ last.pre.state \notin {"HANGING", "CLIMBING"}

\* C25: in an update of a MovingBlock that the player rides, the block moves
\* left when the player moves left, right when the player moves right and not
\* at all when the player's x velocity is 0, and the player is carried with
\* it; when the player is HANGING or CLIMBING or not flush on top the block's
\* box is unchanged
C25_RigidPairing ==
    last.op = "moving" =>
        IF Riding
        THEN /\ last.pre.xv < 0 => block.box.x < last.was.x
             /\ last.pre.xv > 0 => block.box.x > last.was.x
             /\ last.pre.xv = 0 => block.box.x = last.was.x
             /\ player.x - last.pre.x = block.box.x - last.was.x
        ELSE block.box = last.was

\* the part about a player that does not ride the block
C25_HoldsOffBlock ==
    (last.op = "moving" /\ ~Riding) => (block.box = last.was /\ player = last.pre)

\* what the update does with a rider: the block moves by vel to the side the
\* player faces, whatever the player's velocity, and the player's left edge is
\* put on the block's
C25_HoldsForDirection ==
    (last.op = "moving" /\ Riding) =>
        /\ block.box.x = last.was.x + (IF last.pre.direction = "LEFT"
                                       THEN -last.was.vel ELSE last.was.vel)
        /\ player.x = block.box.x
        /\ Bottom(player) = block.box.y \/ ~(keys.up \/ keys.down)

\* a player at rest on the block moves it
C25_ReachedIdleRider ==
    /\ last.op = "moving"
    /\ Riding
    /\ last.pre.state = "IDLE"
    /\ last.pre.xv = ZERO_VELOCITY
    /\ block.box.x # last.was.x

\* a walking rider is moved against its velocity
C25_ReachedPulledBack ==
    /\ last.op = "moving"
    /\ Riding
    /\ last.pre.xv < 0
    /\ player.x > last.pre.x

\* the grab test of LadderBlock.update, on the entity the update was given
Grabs ==
    /\ CollideRect(block.box.mid_rect, last.pre)
    /\ last.pre.state # "JUMPING"
    /\ keys.up \/ keys.down

\* C26: LadderBlock.update makes the entity HANGING with its horizontal centre
\* on the sensor's centre if the entity's box overlaps the sensor, the entity
\* is not JUMPING and Up or Down is held, also when the entity is already
\* HANGING or CLIMBING; in every other case the entity's state and box are
\* unchanged
C26_LadderGrab ==
    last.op = "ladder" =>
        IF Grabs
        THEN /\ player.state = "HANGING"
             /\ CenterX(player) = CenterX(block.box.mid_rect)
             /\ player.y = last.pre.y
             /\ player.w = last.pre.w
             /\ player.h = last.pre.h
        ELSE /\ player.state = last.pre.state
             /\ player.x = last.pre.x
             /\ player.y = last.pre.y
             /\ player.w = last.pre.w
             /\ player.h = last.pre.h

\* a CLIMBING entity beside the sensor's centre is made HANGING and centred
C26_Witness ==
    /\ last.op = "ladder"
    /\ Grabs
    /\ last.pre.state = "CLIMBING"
    /\ player.state = "HANGING"
    /\ player.x # last.pre.x

\* a JUMPING entity on the sensor with Up held is left alone
C26_ReachedJumping ==
    /\ last.op = "ladder"
    /\ CollideRect(block.box.mid_rect, last.pre)
    /\ last.pre.state = "JUMPING"
    /\ keys.up
    /\ player = last.pre

\* C27: a PushableBlock's x is changed by the player only in an update where
\* the player is WALKING, exactly flush against the block's left or right side
\* and has its bottom level with the block's; the push moves the block away
\* from the player; what the update does to x after that is the snapping of
\* its own loop over the terrain, which without a push is all that changes x
C27_PushCondition ==
    last.op = "pushable" =>
        LET flush == \/ last.was.x = Right(last.pre)
                     \/ Right(last.was) = last.pre.x
            pushing == /\ last.pre.state = "WALKING"
                       /\ flush
                       /\ Bottom(last.pre) = Bottom(last.was)
        IN /\ last.pushed.x # last.was.x => pushing
           /\ pushing =>
                 /\ last.was.x = Right(last.pre) => last.pushed.x > last.was.x
                 /\ Right(last.was) = last.pre.x => last.pushed.x < last.was.x
           /\ block.box.x = last.snapped.x
           /\ ~pushing => last.snapped.x = last.was.x
           /\ last.snapped.x # last.pushed.x =>
                 \E i \in 1..Len(terrain) :
                     /\ CollideRect(terrain[i], last.pushed)
                     /\ \/ last.snapped.x = Right(terrain[i])
                        \/ Right(last.snapped) = terrain[i].x

\* the block was pushed to the right and stays there
C27_Witness ==
    /\ last.op = "pushable"
    /\ last.was.x = Right(last.pre)
    /\ last.pushed.x > last.was.x
    /\ block.box.x = last.pushed.x

\* the block was pushed to the left
C27_ReachedLeft ==
    /\ last.op = "pushable"
    /\ Right(last.was) = last.pre.x
    /\ block.box.x < last.was.x

\* the block was pushed into the solid block beside it and put back
C27_ReachedSnap ==
    /\ last.op = "pushable"
    /\ last.pushed.x > last.was.x
    /\ block.box.x = last.was.x

\* a player flush against the block that is not WALKING leaves it in place
C27_ReachedNoPush ==
    /\ last.op = "pushable"
    /\ last.was.x = Right(last.pre)
    /\ Bottom(last.pre) = Bottom(last.was)
    /\ last.pre.state = "IDLE"
    /\ block.box.x = last.was.x

----------------------------------------------------------------------------
(* The updates of a falling block over several frames *)

\* the block in column 1, on its way down from the tile above: its bottom is
\* 0..MaxGap pixels above the floor
FallingStarts ==
    {[kind |-> "falling",
      box |-> [NewFalling(1, 4) EXCEPT !.y = @ - gap]] : gap \in 0..MaxGap}

\* where the rest of a frame leaves the player, relative to the block: beside
\* it with an edge flush to its side, over its left edge, inside its width
RiderOffsets == {-20, -7, 2}

\* the player's feet above the block's top: on it, or in the air
RiderHeights == {0, 3}

FallingInit ==
    /\ terrain = BlockLevel
    /\ block \in FallingStarts
    /\ player = NewPlayer(0, 0)
    /\ enemy = NoEnemy
    /\ coins = <<>>
    /\ keys = NoKeys
    /\ tick = 0
    /\ last = NoLast
    /\ pc = "move"

\* the rest of a frame: the player ends somewhere around the block
PlayerPlaced(dx, up) ==
    /\ pc = "move"
    /\ tick < MaxFalls
    /\ player' = [player EXCEPT !.x = block.box.x + dx,
                                !.y = block.box.y - up - player.h]
    /\ last' = [op |-> "move"]
    /\ pc' = "update"
    /\ UNCHANGED <<terrain, block, enemy, coins, keys, tick>>

\* one call of FallingBlock.update(player, terrain_group); the block itself
\* is in the group and fails the test against its own box
FallingStep ==
    /\ pc = "update"
    /\ \E r \in {FallingUpdate(block.box, player, terrain)} :
          /\ block' = [block EXCEPT !.box = r.block]
          /\ player' = r.player
    /\ last' = [op |-> "falling", pre |-> player, was |-> block.box]
    /\ tick' = tick + 1
    /\ pc' = "move"
    /\ UNCHANGED <<terrain, enemy, coins, keys>>

FallingNext ==
    \/ \E dx \in RiderOffsets, up \in RiderHeights : PlayerPlaced(dx, up)
    \/ FallingStep

FallingSpec == FallingInit /\ [][FallingNext]_vars

\* the player rides the block: feet exactly on its top, an edge strictly inside
Rides(b, entity) == b.y = Bottom(entity) /\ EdgeWithin(b, entity)

\* C24: once a FallingBlock's fallen flag is true it is never false again and
\* no later update moves the block's box, whatever the player does; before
\* that, each update in which the player's feet are exactly on its top with
\* lateral overlap moves the block down by exactly 1 and leaves the player's
\* bottom on the block's top
C24_FallingSettles ==
    [][/\ block.box.fallen =>
             /\ block'.box.fallen
             /\ block'.box.x = block.box.x
             /\ block'.box.y = block.box.y
       /\ (pc = "update" /\ ~block.box.fallen /\ Rides(block.box, player)) =>
             /\ block'.box.y = block.box.y + 1
             /\ Bottom(player') = block'.box.y]_vars

\* the first part: a fallen block stays fallen and in place
C24_HoldsOnceFallen ==
    [][block.box.fallen =>
           /\ block'.box.fallen
           /\ block'.box.x = block.box.x
           /\ block'.box.y = block.box.y]_vars

\* the second part for the updates that leave the block not fallen
C24_HoldsUntilLanding ==
    [][(pc = "update" /\ Rides(block.box, player) /\ ~block'.box.fallen) =>
           /\ block'.box.y = block.box.y + 1
           /\ Bottom(player') = block'.box.y]_vars

\* the update in which the block lands: the block is back where it was and
\* the player's feet are one pixel inside it
C24_ReachedLanding ==
    /\ last.op = "falling"
    /\ ~last.was.fallen
    /\ Rides(last.was, last.pre)
    /\ block.box.fallen
    /\ block.box.y = last.was.y
    /\ Bottom(player) = block.box.y + 1

\* a rider on a fallen block: nothing moves
C24_ReachedRiderOnFallen ==
    /\ last.op = "falling"
    /\ last.was.fallen
    /\ Rides(last.was, last.pre)
    /\ block.box = last.was
    /\ player = last.pre

\* the block at rest on the floor with the flag still false
C24_ReachedRestingUnfallen ==
    /\ last.op = "falling"
    /\ ~block.box.fallen
    /\ Bottom(block.box) = terrain[1].y

====
